---- MODULE Spec2Model ----
(***************************************************************************)
(* Model of pyto.particles.set.Set: extraction of particles from           *)
(* tomograms (extract_particles, get_coordinates_single,                   *)
(* adjust_box_coords, write_particles, add_data).                          *)
(*                                                                         *)
(* Sample values are fixed-point numbers: the integer v stands for the     *)
(* real v / SampleDenom.  Coordinates, ids and box sizes are integers.     *)
(* File names are records (identifier, digits): the name is                *)
(*   identifier + "_id-" + digits + ".mrc".                                *)
(***************************************************************************)
EXTENDS Integers, Sequences, FiniteSets, TLC

VARIABLES
    identifiers,     \* argument identifiers of extract_particles
    group_names,     \* argument group_names of extract_particles
    box_size,        \* Set.box_size
    dtype,           \* Set.dtype ("None" when not configured)
    std,             \* Set.std (<< >> stands for None, << s >> for the value s)
    mean,            \* Set.mean (<< >> stands for None, << m >> for the value m)
    keep_ids,        \* argument keep_ids of write_particles
    pc,              \* position in extract_particles
    idx,             \* index of the current identifier (for ident in identifiers)
    g_name,          \* group found for the current identifier
    centers_abs,     \* label_set._centers_abs, the centres given to adjust_box_coords
    tomo_path,       \* Set._tomo_path
    tomo_info,       \* image_file_name of the module tomo_info cached in sys.modules
    tomo_shape,      \* Set._tomo.data.shape
    ids,             \* Set._ids
    left_corners,    \* Set._left_corners
    centers,         \* Set._centers
    particle_paths,  \* Set._particle_paths
    data,            \* Set.data, the particle catalog (<<>> stands for None)
    written,         \* particle files written, in the order of writing
    warned,          \* paths for which warnings.warn was called, in order
    err,             \* the exception that ended the run ("none" when there is none)
    processed,       \* history: the datasets read so far, in order
    par,             \* the parameters of the correlation script (module globals)
    corr,            \* the EmLmCorrelation object: its attributes, by name
    cpc,             \* position in main() of the correlation script
    cerr,            \* the exception that ended main() ("none" when there is none)
    reads,           \* history: the calls of corr.readPositions, in order
    fits,            \* history: the fits made by corr.establish, in order
    mosaic_count,    \* history: how often the mosaic correction was applied
    results          \* the results file (<< >> while it does not exist)

\* the state of the particle set
setVars == << identifiers, group_names, box_size, dtype, std, mean, keep_ids, pc,
              idx, g_name, centers_abs, tomo_path, tomo_info, tomo_shape, ids, left_corners,
              centers, particle_paths, data, written, warned, err, processed >>

\* the state of the correlation script
corrVars == << par, corr, cpc, cerr, reads, fits, mosaic_count, results >>

vars == << identifiers, group_names, box_size, dtype, std, mean, keep_ids, pc,
           idx, g_name, centers_abs, tomo_path, tomo_info, tomo_shape, ids, left_corners,
           centers, particle_paths, data, written, warned, err, processed,
           par, corr, cpc, cerr, reads, fits, mosaic_count, results >>

----------------------------------------------------------------------------
(* Bounds of the model *)

\* longest identifier list given to extract_particles
MaxIdentifiers == 2

\* largest extent of a tomogram axis in the box specification
MaxShape == 3

\* how far outside the volume a centre may lie, on either side
MaxOut == 1

\* resolution of the fixed-point samples: a sample v stands for v / SampleDenom
SampleDenom == 2

\* largest number of particles of a batch in the file-name specification
MaxBatch == 10

\* largest id of the free-form batches in the file-name specification
MaxNameId == 11

----------------------------------------------------------------------------
(* Helpers *)

Range(s) == {s[i] : i \in 1..Len(s)}

SeqsUpTo(S, n) == UNION {[1..k -> S] : k \in 0..n}

Injective(s) == \A i, j \in 1..Len(s) : s[i] = s[j] => i = j

Min2(a, b) == IF a <= b THEN a ELSE b

Max2(a, b) == IF a >= b THEN a ELSE b

Abs(n) == IF n < 0 THEN -n ELSE n

RECURSIVE SeqMax(_)
SeqMax(s) == IF Len(s) = 1 THEN s[1] ELSE Max2(s[1], SeqMax(Tail(s)))

IsPrefix(s, t) == Len(s) <= Len(t) /\ \A i \in 1..Len(s) : s[i] = t[i]

----------------------------------------------------------------------------
(* The structure specific object (struct) and the files of the datasets *)

Idents == {"a", "b", "c"}

GroupNames == {"g1", "g2"}

\* particles.struct[g_name].identifiers: "a" belongs to one group, "b" to
\* both groups and "c" to no group
StructIdentifiers(g) == IF g = "g1" THEN {"a", "b"} ELSE {"b"}

\* A path is the sequence of its components; an absolute path starts with
\* the component "/".

\* os.path.isabs
IsAbs(path) == Len(path) > 0 /\ path[1] = "/"

RECURSIVE NormPathFrom(_, _)
\* the components of path put after the normalised components done
NormPathFrom(done, path) ==
    IF path = << >> THEN done
    ELSE IF Head(path) = "." THEN NormPathFrom(done, Tail(path))
    ELSE IF Head(path) = ".." /\ Len(done) > 0 /\ done[Len(done)] \notin {"..", "/"}
    THEN NormPathFrom(SubSeq(done, 1, Len(done) - 1), Tail(path))
    ELSE IF Head(path) = ".." /\ Len(done) > 0 /\ done[Len(done)] = "/"
    THEN NormPathFrom(done, Tail(path))
    ELSE NormPathFrom(Append(done, Head(path)), Tail(path))

\* os.path.normpath
NormPath(path) == NormPathFrom(<< >>, path)

\* the directory of the tomo info file of a dataset: pickle_dir,
\* tomo_info_dir_relative ('../common'), normalised
TomoInfoDir(ident) == NormPath(<< ident, "pickles", "..", "common" >>)

\* The tomo info file of a dataset: << >> when there is no file, otherwise
\* << v >> where v is << >> when the file does not set image_file_name and
\* << path >> when it sets it to path.
NoTomoInfo == << >>

TomoInfoWithout == << << >> >>

TomoInfoOf(path) == << << path >> >>

\* get_tomo_path for a dataset with the given tomo info file; module is the
\* image_file_name of the module tomo_info in sys.modules (<< >> when the
\* module was not loaded or has no such attribute).  load_module executes
\* the file in the module of sys.modules when there is one, so a file that
\* does not set the variable leaves the value of the file loaded before.
TomoPath(ident, info, module) ==
    IF info = NoTomoInfo
    THEN [error |-> "FileNotFound", path |-> << >>, module |-> module]
    ELSE LET loaded == IF info[1] = << >> THEN module ELSE info[1]
         IN  IF loaded = << >>
             THEN [error |-> "NoTomoPathVar", path |-> << >>, module |-> loaded]
             ELSE IF IsAbs(loaded[1])
             THEN [error |-> "AbsoluteTomoPath", path |-> << >>, module |-> loaded]
             ELSE [error |-> "none",
                   path |-> NormPath(TomoInfoDir(ident) \o loaded[1]),
                   module |-> loaded]

----------------------------------------------------------------------------
(* adjust_box_coords *)

\* mutant: the sanity check also rejects a box as large as the volume
BoxTooLargeOrEqual(shape, b) == \E ax \in 1..Len(shape) : shape[ax] <= b

\* sanity check: (shape < self.box_size).any()
BoxTooLarge(shape, b) == \E ax \in 1..Len(shape) : shape[ax] < b

\* mutant: single-sided clamp, the right corner is never checked
LeftCornerAxisLeftOnly(c, b, s) ==
    LET left_coords == c - (b \div 2)
    IN  IF left_coords < 0 THEN 0 ELSE left_coords

\* mutant: the right corner is taken as the last voxel of the box, so that a
\* box ending at the boundary is shifted too
LeftCornerAxisInclusive(c, b, s) ==
    LET left_coords == c - (b \div 2)
        left_fixed  == IF left_coords < 0 THEN 0 ELSE left_coords
        right_coords == left_fixed + b
        right_fixed == IF right_coords >= s THEN s - 1 ELSE right_coords
    IN  right_fixed - b

\* the two-pass clamp on one axis: left corner for centre c, box b, extent s
LeftCornerAxis(c, b, s) ==
    LET half_size   == b \div 2
        left_coords == c - half_size
        left_fixed  == IF left_coords < 0 THEN 0 ELSE left_coords
        right_coords == left_fixed + b
        right_fixed == IF right_coords >= s THEN s ELSE right_coords
    IN  right_fixed - b

\* self._left_corners for one centre
LeftCorner(c, b, shape) == [ax \in 1..Len(shape) |-> LeftCornerAxis(c[ax], b, shape[ax])]

\* mutant: the half size is rounded up
CenterOfRoundedUp(corner, b) == [ax \in 1..Len(corner) |-> corner[ax] + ((b + 1) \div 2)]

\* self._centers for one left corner: self._left_corners + half_size
CenterOf(corner, b) == [ax \in 1..Len(corner) |-> corner[ax] + (b \div 2)]


\* the result of adjust_box_coords: the error flag and the attributes it sets
\* (on error nothing is assigned, the attributes keep the values old_*)
AdjustBoxCoords(cabs, b, shape, old_corners, old_centers) ==
    IF BoxTooLarge(shape, b)
    THEN [error |-> TRUE, left_corners |-> old_corners, centers |-> old_centers]
    ELSE LET corners == [j \in 1..Len(cabs) |-> LeftCorner(cabs[j], b, shape)]
         IN  [error |-> FALSE,
              left_corners |-> corners,
              centers |-> [j \in 1..Len(cabs) |-> CenterOf(corners[j], b)]]

----------------------------------------------------------------------------
(* write_particles: file names *)

\* The integer type of the cast, astype(int), is int64.  TLC's integers
\* have 32 bits, so the type is modelled with 30 bits: only the
\* sign of the width computed from it matters below.
MinInt == -(2^29)

MaxInt == 2^29 - 1

\* numpy integer arithmetic wraps around
WrapInt(n) == ((n - MinInt) % (2^30)) + MinInt

\* np.log10(0) is -inf, and astype(int) of -inf is undefined: the outcomes
\* builds produce (the smallest integer on x86-64 and aarch64)
UndefinedCast == {MinInt, 0, MaxInt}

RECURSIVE Log10Floor(_)
\* np.log10(m).astype(int) for m >= 1
Log10Floor(m) == IF m < 10 THEN 0 ELSE 1 + Log10Floor(m \div 10)

\* np.log10(m).astype(int) + 1; cast is the outcome of the undefined cast
NDigits(m, cast) == IF m >= 1 THEN Log10Floor(m) + 1 ELSE WrapInt(cast + 1)

\* the number whose digits set the width: ids.max() or len(ids)
WidthBase(batch, keep) == IF keep THEN SeqMax(batch) ELSE Len(batch)

RECURSIVE Digits(_)
\* the decimal digits of n >= 0, most significant first
Digits(n) == IF n < 10 THEN << n >> ELSE Append(Digits(n \div 10), n % 10)

\* '{:0<w>d}'.format(n) for n >= 0 and w >= 0: zero-padded on the left to
\* width w, never truncated
FormatId(n, w) ==
    LET d == Digits(n)
    IN  IF Len(d) >= w THEN d ELSE [i \in 1..(w - Len(d)) |-> 0] \o d

\* a negative width is no valid format specifier: str.format raises ValueError
FormatValid(w) == w >= 0

\* the numbers that go into the names: the ids, or the ranks from 0 up
NameNumbers(batch, keep) == IF keep THEN batch ELSE [j \in 1..Len(batch) |-> j - 1]

\* particle_names / self._particle_paths of one batch
ParticleNames(ident, batch, keep, cast) ==
    LET w == NDigits(WidthBase(batch, keep), cast)
        nums == NameNumbers(batch, keep)
    IN  [j \in 1..Len(batch) |-> [identifier |-> ident, digits |-> FormatId(nums[j], w)]]

----------------------------------------------------------------------------
(* write_particles: clipping and the cast to dtype *)

Int8Min == -128

Int8Max == 127

UInt8Min == 0

UInt8Max == 255

DTypes == {"int8", "uint8"}

\* np.iinfo(dtype).min and .max, in whole units
RangeMin(dt) == IF dt = "int8" THEN Int8Min ELSE UInt8Min

RangeMax(dt) == IF dt = "int8" THEN Int8Max ELSE UInt8Max

\* mutant: only the upper end of the range is tested
NeedsClipUpperOnly(samples, dt) ==
    \E i \in 1..Len(samples) : samples[i] > RangeMax(dt) * SampleDenom

\* (particle_data < range_info.min).any() or (particle_data > range_info.max).any()
NeedsClip(samples, dt) ==
    \E i \in 1..Len(samples) :
        \/ samples[i] < RangeMin(dt) * SampleDenom
        \/ samples[i] > RangeMax(dt) * SampleDenom

\* mutant: only the upper end of the range is clipped
ClipSampleUpperOnly(v, dt) == Min2(v, RangeMax(dt) * SampleDenom)

\* np.clip of one sample
ClipSample(v, dt) ==
    Min2(Max2(v, RangeMin(dt) * SampleDenom), RangeMax(dt) * SampleDenom)

\* astype(dtype, casting='unsafe') of one sample to an integer type: the
\* fraction is dropped (rounding toward zero)
AsType(v, dt) ==
    IF v >= 0 THEN (v \div SampleDenom) * SampleDenom
    ELSE -(((-v) \div SampleDenom) * SampleDenom)

\* the data written for one particle
ParticleData(samples, dt) ==
    IF dt = "None" THEN samples
    ELSE [i \in 1..Len(samples) |-> AsType(ClipSample(samples[i], dt), dt)]

\* whether warnings.warn is called for one particle
Warns(samples, dt) == dt # "None" /\ NeedsClip(samples, dt)

----------------------------------------------------------------------------
(* write_particles: normalisation of the standard deviation and the mean  *)
(*                                                                         *)
(* Float values that are not numbers are named by their kind: a processed  *)
(* particle is a record [kind, samples], where kind is "finite" (samples   *)
(* holds the values) or one of "nan", "inf", "-inf" (every voxel holds     *)
(* that value, samples is empty).                                          *)

RECURSIVE SeqSum(_)
SeqSum(s) == IF s = << >> THEN 0 ELSE s[1] + SeqSum(Tail(s))

SumSq(s) == SeqSum([i \in 1..Len(s) |-> s[i] * s[i]])

RECURSIVE ISqrtFrom(_, _)
ISqrtFrom(n, r) == IF (r + 1) * (r + 1) > n THEN r ELSE ISqrtFrom(n, r + 1)

\* the square root, to the resolution of the integers
ISqrt(n) == ISqrtFrom(n, 0)

\* (n * particle_data.std()) squared, for the n samples of a particle
Spread(samples) == Len(samples) * SumSq(samples) - SeqSum(samples) * SeqSum(samples)

\* particle_data.std() == 0
ZeroStd(samples) == Spread(samples) = 0

\* self.std * particle_data / particle_data.std(): numpy divides by zero
\* without raising; 0 / 0 is nan and x / 0 is inf with the sign of x
ScaleStd(samples, s) ==
    IF ZeroStd(samples)
    THEN [kind |-> IF s * samples[1] = 0 THEN "nan"
                   ELSE IF s * samples[1] > 0 THEN "inf" ELSE "-inf",
          samples |-> << >>]
    ELSE [kind |-> "finite",
          samples |-> [i \in 1..Len(samples) |->
                         (s * samples[i] * Len(samples)) \div ISqrt(Spread(samples))]]

\* particle_data - particle_data.mean() + self.mean: inf - inf and
\* nan - nan are nan
ShiftMean(p, m) ==
    IF p.kind = "finite"
    THEN [kind |-> "finite",
          samples |-> [i \in 1..Len(p.samples) |->
                         p.samples[i] - (SeqSum(p.samples) \div Len(p.samples)) + m]]
    ELSE [kind |-> "nan", samples |-> << >>]

\* the two optional steps, in the order of the code
Normalized(samples, s, m) ==
    LET scaled == IF s = << >> THEN [kind |-> "finite", samples |-> samples]
                  ELSE ScaleStd(samples, s[1])
    IN  IF m = << >> THEN scaled ELSE ShiftMean(scaled, m[1])

\* the value astype gives for nan: the cast is undefined, the outcome is one
\* of the ends of the range or zero
NanAsType(dt, cast) ==
    IF cast < 0 THEN RangeMin(dt) * SampleDenom
    ELSE IF cast = 0 THEN 0 ELSE RangeMax(dt) * SampleDenom

\* clip and astype of a normalised particle of n voxels: a comparison with
\* nan is false, np.clip keeps nan and brings inf to the end of the range
Cast(p, n, dt, cast) ==
    IF dt = "None" THEN p
    ELSE [kind |-> "finite",
          samples |->
             IF p.kind = "finite" THEN ParticleData(p.samples, dt)
             ELSE [i \in 1..n |->
                     IF p.kind = "nan" THEN NanAsType(dt, cast)
                     ELSE IF p.kind = "inf" THEN RangeMax(dt) * SampleDenom
                     ELSE RangeMin(dt) * SampleDenom]]

\* whether warnings.warn is called for a normalised particle
WarnsNormalized(p, dt) ==
    IF p.kind = "finite" THEN Warns(p.samples, dt)
    ELSE dt # "None" /\ p.kind \in {"inf", "-inf"}

----------------------------------------------------------------------------
(* add_data *)

\* mutant: the x and the z coordinate of the left corner change places
CurrDataCornersSwapped(ident, group, batch, tpath, paths, corners) ==
    [j \in 1..Len(batch) |->
        [identifier |-> ident, group_name |-> group, id |-> batch[j],
         tomo_path |-> tpath, particle_path |-> paths[j],
         left_corner_x |-> corners[j][3],
         left_corner_y |-> corners[j][2],
         left_corner_z |-> corners[j][1]]]

\* curr_data: one row for each id of the current dataset
CurrData(ident, group, batch, tpath, paths, corners) ==
    [j \in 1..Len(batch) |->
        [identifier |-> ident, group_name |-> group, id |-> batch[j],
         tomo_path |-> tpath, particle_path |-> paths[j],
         left_corner_x |-> corners[j][1],
         left_corner_y |-> corners[j][2],
         left_corner_z |-> corners[j][3]]]

\* mutant: the table is replaced by the rows of the current dataset
AppendDataReplaces(table, curr) == curr

\* mutant: the rows of the current dataset are put in front of the table
AppendDataInFront(table, curr) == curr \o table

\* self.data after add_data: curr_data when there was no table, otherwise
\* self.data.append(curr_data, ignore_index=True)
AppendData(table, curr) == IF table = << >> THEN curr ELSE table \o curr

----------------------------------------------------------------------------
(* extract_particles: the loop over the identifiers *)

RECURSIVE FirstGroup(_, _, _)
\* index of the first of names[k..] that contains ident, 0 when there is none
FirstGroup(ident, names, k) ==
    IF k > Len(names) THEN 0
    ELSE IF ident \in StructIdentifiers(names[k]) THEN k
    ELSE FirstGroup(ident, names, k + 1)

\* mutant: only the first group name is looked at
GroupIndexFirstOnly(ident, names) ==
    IF Len(names) > 0 /\ ident \in StructIdentifiers(names[1]) THEN 1 ELSE 0

\* the inner loop: for g_name in group_names ... break
GroupIndex(ident, names) == FirstGroup(ident, names, 1)

\* mutant: the error for an identifier of no group empties the catalog
LoopClearsCatalog ==
    /\ pc = "loop"
    /\ idx <= Len(identifiers)
    /\ LET k == GroupIndex(identifiers[idx], group_names) IN
         IF k = 0
         THEN /\ pc' = "error"
              /\ err' = "NoGroup"
              /\ data' = << >>
              /\ UNCHANGED g_name
         ELSE /\ pc' = "coords"
              /\ g_name' = group_names[k]
              /\ UNCHANGED << err, data >>
    /\ UNCHANGED << identifiers, group_names, box_size, dtype, std, mean, keep_ids, idx,
                    centers_abs, tomo_path, tomo_info, tomo_shape, ids, left_corners,
                    centers, particle_paths, written, warned, processed >>
    /\ UNCHANGED corrVars

\* for ident in identifiers: the group search of one identifier; raises
\* ValueError when no group was found
Loop ==
    /\ pc = "loop"
    /\ idx <= Len(identifiers)
    /\ LET k == GroupIndex(identifiers[idx], group_names) IN
         IF k = 0
         THEN /\ pc' = "error"
              /\ err' = "NoGroup"
              /\ UNCHANGED g_name
         ELSE /\ pc' = "coords"
              /\ g_name' = group_names[k]
              /\ UNCHANGED err
    /\ UNCHANGED << identifiers, group_names, box_size, dtype, std, mean, keep_ids, idx,
                    centers_abs, tomo_path, tomo_info, tomo_shape, ids, left_corners,
                    centers, particle_paths, data, written, warned, processed >>
    /\ UNCHANGED corrVars

\* return particles, labels
Return ==
    /\ pc = "loop"
    /\ idx > Len(identifiers)
    /\ pc' = "done"
    /\ UNCHANGED << identifiers, group_names, box_size, dtype, std, mean, keep_ids, idx,
                    g_name, centers_abs, tomo_path, tomo_info, tomo_shape, ids,
                    left_corners, centers, particle_paths, data, written,
                    warned, err, processed >>
    /\ UNCHANGED corrVars

\* labels.get_coordinates_single and particles.get_coordinates_single; the
\* files of the dataset give the tomogram shape, the ids and the centres,
\* and info is its tomo info file.  An exception of get_tomo_path ends the
\* call before _tomo_path, _tomo and _ids are set.
GetCoordinates(shape, new_ids, cabs, info) ==
    /\ pc = "coords"
    /\ centers_abs' = cabs
    /\ LET t == TomoPath(identifiers[idx], info, tomo_info) IN
         /\ tomo_info' = t.module
         /\ IF t.error # "none"
            THEN /\ pc' = "error"
                 /\ err' = t.error
                 /\ UNCHANGED << tomo_path, tomo_shape, ids, processed,
                                 left_corners, centers >>
            ELSE /\ tomo_path' = t.path
                 /\ tomo_shape' = shape
                 /\ ids' = new_ids
                 /\ processed' = Append(processed,
                        [identifier |-> identifiers[idx], group_name |-> g_name,
                         ids |-> new_ids])
                 /\ LET r == AdjustBoxCoords(cabs, box_size, shape, left_corners, centers) IN
                      /\ left_corners' = r.left_corners
                      /\ centers' = r.centers
                      /\ pc' = IF r.error THEN "error" ELSE "write"
                      /\ err' = IF r.error THEN "BoxTooLarge" ELSE err
    /\ UNCHANGED << identifiers, group_names, box_size, dtype, std, mean, keep_ids, idx,
                    g_name, particle_paths, data, written, warned >>
    /\ UNCHANGED corrVars

\* particles.write_particles(identifier=ident); insets[j] holds the samples
\* useInset returns for the j-th slice
WriteParticles(insets, cast) ==
    /\ pc = "write"
    /\ IF Len(ids) = 0
       THEN /\ particle_paths' = << >>
            /\ pc' = "add"
            /\ UNCHANGED << written, warned, err >>
       ELSE IF ~FormatValid(NDigits(WidthBase(ids, keep_ids), cast))
       THEN /\ pc' = "error"
            /\ err' = "Format"
            /\ UNCHANGED << particle_paths, written, warned >>
       ELSE LET paths == ParticleNames(identifiers[idx], ids, keep_ids, cast)
                n == Min2(Len(left_corners), Len(paths))
                norm == [j \in 1..n |-> Normalized(insets[j], std, mean)]
                out == [j \in 1..n |-> Cast(norm[j], Len(insets[j]), dtype, cast)]
                files == [j \in 1..n |->
                            [path |-> paths[j], corner |-> left_corners[j],
                             size |-> box_size, tomo |-> tomo_path,
                             input |-> insets[j],
                             kind |-> out[j].kind,
                             samples |-> out[j].samples]]
                clipped == SelectSeq([j \in 1..n |-> [path |-> paths[j], p |-> norm[j]]],
                                     LAMBDA f : WarnsNormalized(f.p, dtype))
            IN  /\ particle_paths' = paths
                /\ written' = written \o files
                /\ warned' = warned \o [j \in 1..Len(clipped) |-> clipped[j].path]
                /\ pc' = "add"
                /\ UNCHANGED err
    /\ UNCHANGED << identifiers, group_names, box_size, dtype, std, mean, keep_ids, idx,
                    g_name, centers_abs, tomo_path, tomo_info, tomo_shape, ids,
                    left_corners, centers, data, processed >>
    /\ UNCHANGED corrVars

\* particles.add_data(group_name=g_name, identifier=ident), and on to the
\* next identifier
AddData ==
    /\ pc = "add"
    /\ data' = IF Len(ids) = 0 THEN data
               ELSE AppendData(data, CurrData(identifiers[idx], g_name, ids,
                                             tomo_path, particle_paths, left_corners))
    /\ idx' = idx + 1
    /\ pc' = "loop"
    /\ UNCHANGED << identifiers, group_names, box_size, dtype, std, mean, keep_ids,
                    g_name, centers_abs, tomo_path, tomo_info, tomo_shape, ids,
                    left_corners, centers, particle_paths, written, warned,
                    err, processed >>
    /\ UNCHANGED corrVars


----------------------------------------------------------------------------
(* The state after construction, for given sets of arguments *)

\* the correlation script is not run
CorrIdle ==
    /\ par = << >>
    /\ corr = << >>
    /\ cpc = "idle"
    /\ cerr = "none"
    /\ reads = << >>
    /\ fits = << >>
    /\ mosaic_count = 0
    /\ results = << >>

InitSetVars(identifier_lists, group_lists, box_sizes, dtypes, stds, means, keeps) ==
    /\ identifiers \in identifier_lists
    /\ group_names \in group_lists
    /\ box_size \in box_sizes
    /\ dtype \in dtypes
    /\ std \in stds
    /\ mean \in means
    /\ keep_ids \in keeps
    /\ pc = "loop"
    /\ idx = 1
    /\ g_name = "none"
    /\ centers_abs = << >>
    /\ tomo_path = << >>
    /\ tomo_info = << >>
    /\ tomo_shape = << >>
    /\ ids = << >>
    /\ left_corners = << >>
    /\ centers = << >>
    /\ particle_paths = << >>
    /\ data = << >>
    /\ written = << >>
    /\ warned = << >>
    /\ err = "none"
    /\ processed = << >>

InitSet(identifier_lists, group_lists, box_sizes, dtypes, stds, means, keeps) ==
    /\ InitSetVars(identifier_lists, group_lists, box_sizes, dtypes, stds, means, keeps)
    /\ CorrIdle

\* no particle set is made: the state of a set without datasets
SetIdle ==
    InitSetVars({ << >> }, { << >> }, {1}, {"None"}, { << >> }, { << >> }, {TRUE})

\* the same without normalisation (std=None, mean=None)
InitWith(identifier_lists, group_lists, box_sizes, dtypes, keeps) ==
    InitSet(identifier_lists, group_lists, box_sizes, dtypes, {<< >>}, {<< >>}, keeps)

\* the samples of a sub-volume of a tomogram whose voxel (x, y, z) holds the
\* value x + y + z: the voxels at the two opposite corners of the box
RampInset(corner, b) ==
    << (corner[1] + corner[2] + corner[3]) * SampleDenom,
       (corner[1] + corner[2] + corner[3] + 3 * (b - 1)) * SampleDenom >>

RampInsets == [j \in 1..Len(left_corners) |-> RampInset(left_corners[j], box_size)]

----------------------------------------------------------------------------
(* Spec: extract_particles over lists of identifiers and group names *)

\* the ids a dataset may hold
MainIdSeqs == { << >>, << 3 >>, << 2, 1 >> }

\* the tomogram shapes of the datasets
MainShapes == { << 2, 2, 2 >>, << 2, 1, 2 >> }

\* the centre of the label with a given id
MainCentre(id) == << id - 2, id - 1, id >>

\* a tomo info file that names the tomogram next to it
PlainTomoInfo == TomoInfoOf(<< "tomo.mrc" >>)

\* the tomo info files of the datasets: no file, a file without the
\* variable, relative paths and an absolute path
MainTomoInfos ==
    { NoTomoInfo, TomoInfoWithout, PlainTomoInfo,
      TomoInfoOf(<< "..", "3d", "tomo.mrc" >>),
      TomoInfoOf(<< "/", "data", "tomo.mrc" >>) }

Init ==
    InitWith(SeqsUpTo(Idents, MaxIdentifiers),
             {g \in SeqsUpTo(GroupNames, Cardinality(GroupNames)) : Injective(g)},
             {1, 2}, {"None"}, {TRUE})

MainGetCoordinates ==
    /\ pc = "coords"
    /\ \E shape \in MainShapes, new_ids \in MainIdSeqs, info \in MainTomoInfos :
        GetCoordinates(shape, new_ids, [j \in 1..Len(new_ids) |-> MainCentre(new_ids[j])],
                       info)

MainWrite ==
    /\ pc = "write"
    /\ \E cast \in UndefinedCast : WriteParticles(RampInsets, cast)

Next == Loop \/ Return \/ MainGetCoordinates \/ MainWrite \/ AddData

Spec == Init /\ [][Next]_vars


----------------------------------------------------------------------------
(* SpecBox: adjust_box_coords over shapes, box sizes and centres.  The     *)
(* dataset under test is the last of the list; a dataset before it, when   *)
(* there is one, has a tomogram the box just fits and one label at the     *)
(* origin.                                                                 *)

BoxSizes == (1..(MaxShape + 1)) \cup {10}

BoxShapes == [1..3 -> 1..MaxShape] \cup { << 100, 100, 100 >> }

BoxCoords == (-MaxOut)..(MaxShape - 1 + MaxOut)

BoxCenterLists ==
    { << >> } \cup { << c >> : c \in [1..3 -> BoxCoords] }
              \cup { << << 2, 2, 2 >>, << 98, 98, 98 >> >> }

InitBox ==
    InitWith({ << "a" >>, << "b", "a" >> }, { << "g1" >> }, BoxSizes, {"None"}, {TRUE})

BoxGetCoordinates ==
    /\ pc = "coords"
    /\ IF idx < Len(identifiers)
       THEN GetCoordinates(<< box_size, box_size, box_size >>, << 1 >>, << << 0, 0, 0 >> >>,
                           PlainTomoInfo)
       ELSE \E shape \in BoxShapes, cabs \in BoxCenterLists :
               GetCoordinates(shape, [j \in 1..Len(cabs) |-> j], cabs, PlainTomoInfo)

NextBox == Loop \/ Return \/ BoxGetCoordinates \/ MainWrite \/ AddData

SpecBox == InitBox /\ [][NextBox]_vars


----------------------------------------------------------------------------
(* SpecClip: write_particles of one dataset with a target dtype, over the  *)
(* samples of its particles                                                *)

ClipIdSeqs == { << >>, << 1 >>, << 1, 2 >> }

\* whole values at and around the ends of the ranges, and 200
ClipWholes == {Int8Min - 1, Int8Min, -1, Int8Max, 200, UInt8Max}

\* the samples: the whole values, and the values a fraction 1 / SampleDenom
\* above them
ClipSamples == {w * SampleDenom + f : w \in ClipWholes, f \in {0, 1}}

\* the samples of one particle
ClipInsets == [1..2 -> ClipSamples]

InitClip ==
    InitWith({ << "a" >> }, { << "g1" >> }, {1}, DTypes \cup {"None"}, {TRUE})

ClipGetCoordinates ==
    /\ pc = "coords"
    /\ \E new_ids \in ClipIdSeqs :
          GetCoordinates(<< 2, 2, 2 >>, new_ids,
                         [j \in 1..Len(new_ids) |-> << j - 1, 0, 0 >>], PlainTomoInfo)

\* (the ids are positive here, so that the cast of log10 is defined and its
\* second argument is not used)
ClipWrite ==
    /\ pc = "write"
    /\ \E insets \in [1..Len(ids) -> ClipInsets] :
          WriteParticles(insets, MinInt)

NextClip == Loop \/ Return \/ ClipGetCoordinates \/ ClipWrite \/ AddData

SpecClip == InitClip /\ [][NextClip]_vars

----------------------------------------------------------------------------
(* SpecStd: write_particles of one dataset with targets for the standard   *)
(* deviation and the mean; a particle is a box of 2 x 2 x 2 voxels         *)

\* the voxel values
StdSamples == {w * SampleDenom : w \in {-1, 0, 1}}

\* the samples of one particle: one half of the voxels holds one value, the
\* other half another (or the same) value
StdInsets == {[i \in 1..8 |-> IF i <= 4 THEN a ELSE b] : a, b \in StdSamples}

\* the targets: none, zero and one
StdTargets == { << >>, << 0 >>, << SampleDenom >> }

InitStd ==
    InitSet({ << "a" >> }, { << "g1" >> }, {2}, {"None", "int8"},
            StdTargets, StdTargets, {TRUE})

StdGetCoordinates ==
    /\ pc = "coords"
    /\ \E new_ids \in ClipIdSeqs :
          GetCoordinates(<< 2, 2, 2 >>, new_ids,
                         [j \in 1..Len(new_ids) |-> << 1, 1, 1 >>], PlainTomoInfo)

\* (the ids are positive here, so that the cast of log10 is defined; cast is
\* the outcome of the cast of nan)
StdWrite ==
    /\ pc = "write"
    /\ \E insets \in [1..Len(ids) -> StdInsets], cast \in UndefinedCast :
          WriteParticles(insets, cast)

NextStd == Loop \/ Return \/ StdGetCoordinates \/ StdWrite \/ AddData

SpecStd == InitStd /\ [][NextStd]_vars

----------------------------------------------------------------------------
(* SpecNames: the file names write_particles forms for a batch of ids      *)

\* the batches: the empty one, the batches of one or two ids up to
\* MaxNameId, the batches 1..n up to MaxBatch ids, and one with a
\* three-digit id
NameBatches ==
    SeqsUpTo(0..MaxNameId, 2)
        \cup {[j \in 1..n |-> j] : n \in 1..MaxBatch}
        \cup { << 7, 123 >> }

InitNames ==
    InitWith({ << "a" >> }, { << "g1" >> }, {1}, {"None"}, BOOLEAN)

NamesGetCoordinates ==
    /\ pc = "coords"
    /\ \E new_ids \in NameBatches :
          GetCoordinates(<< 2, 2, 2 >>, new_ids,
                         [j \in 1..Len(new_ids) |-> << 0, 0, 0 >>], PlainTomoInfo)

NextNames == Loop \/ Return \/ NamesGetCoordinates \/ MainWrite \/ AddData

SpecNames == InitNames /\ [][NextNames]_vars

----------------------------------------------------------------------------
(* The correlation script two_step_move-search_gl.py                       *)
(*                                                                         *)
(* An optional value is a sequence: << >> stands for None and << v >> for  *)
(* the value v.  Coordinates, matrix elements and errors are rational      *)
(* numbers [n, q] in lowest terms with q > 0.                              *)

None == << >>

Some(v) == << v >>

RECURSIVE Gcd(_, _)
Gcd(a, b) == IF b = 0 THEN a ELSE Gcd(b, a % b)

\* the rational n / q in lowest terms (q # 0)
Rat(n, q) ==
    LET g == Gcd(Abs(n), Abs(q))
        sgn == IF q < 0 THEN -1 ELSE 1
    IN  [n |-> sgn * (n \div g), q |-> sgn * (q \div g)]

RInt(k) == [n |-> k, q |-> 1]

RAdd(a, b) == Rat(a.n * b.q + b.n * a.q, a.q * b.q)

RNeg(a) == [n |-> -a.n, q |-> a.q]

RSub(a, b) == RAdd(a, RNeg(b))

RMul(a, b) == Rat(a.n * b.n, a.q * b.q)

\* a / b (b # 0)
RDiv(a, b) == Rat(a.n * b.q, a.q * b.n)

RAbs(a) == [n |-> Abs(a.n), q |-> a.q]

\* numpy.sqrt of a rational that is the square of a rational
RSqrt(a) == [n |-> ISqrt(a.n), q |-> ISqrt(a.q)]

\* a point with integer coordinates
Pt(x, y) == << RInt(x), RInt(y) >>

PtAdd(p, r) == << RAdd(p[1], r[1]), RAdd(p[2], r[2]) >>

PtSub(p, r) == << RSub(p[1], r[1]), RSub(p[2], r[2]) >>

----------------------------------------------------------------------------
(* pyto.geometry.Affine2D: y = gl x + d, with the fit-quality attributes   *)
(* rmsError and rmsErrorEst (specification section 4.1)                    *)

Affine(gl, d, rms, est) == [gl |-> gl, d |-> d, rmsError |-> rms, rmsErrorEst |-> est]

\* gl x
MatVec(gl, p) ==
    << RAdd(RMul(gl[1][1], p[1]), RMul(gl[1][2], p[2])),
       RAdd(RMul(gl[2][1], p[1]), RMul(gl[2][2], p[2])) >>

\* the product a b of two matrices
MatMul(a, b) ==
    [i \in 1..2 |-> [j \in 1..2 |->
        RAdd(RMul(a[i][1], b[1][j]), RMul(a[i][2], b[2][j]))]]

Det(gl) == RSub(RMul(gl[1][1], gl[2][2]), RMul(gl[1][2], gl[2][1]))

\* the inverse of a matrix (Det(gl) # 0)
MatInv(gl) ==
    << << RDiv(gl[2][2], Det(gl)), RDiv(RNeg(gl[1][2]), Det(gl)) >>,
       << RDiv(RNeg(gl[2][1]), Det(gl)), RDiv(gl[1][1], Det(gl)) >> >>

\* transform(points): gl x + d for every row
Transform(t, points) ==
    [k \in 1..Len(points) |-> PtAdd(MatVec(t.gl, points[k]), t.d)]

\* the scale attribute: the two scale factors of the decomposition of gl
\* into rotation, scale, parity and shear (the first is the length of the
\* first column, their product is the absolute value of the determinant)
Scale(t) ==
    LET s1 == RSqrt(RAdd(RMul(t.gl[1][1], t.gl[1][1]), RMul(t.gl[2][1], t.gl[2][1])))
    IN  << s1, RDiv(RAbs(Det(t.gl)), s1) >>

\* the factor of the error of an inverse: sqrt(product of the scale factors)
ErrorFactor(t) == RSqrt(RMul(Scale(t)[1], Scale(t)[2]))

\* inverse(): the inverse matrix, the translation - gl^-1 d, and the error
\* estimated from the error of this transform
Inverse(t) ==
    LET inv == Affine(MatInv(t.gl), MatVec(MatInv(t.gl), << RNeg(t.d[1]), RNeg(t.d[2]) >>),
                      None, None)
        fwd == IF t.rmsError # None THEN t.rmsError ELSE t.rmsErrorEst
    IN  IF fwd = None THEN inv
        ELSE [inv EXCEPT !.rmsErrorEst = Some(RMul(fwd[1], ErrorFactor(inv)))]

\* compose: first applied, then second; the error of the composition is an
\* estimate, est
Compose(first, second, est) ==
    Affine(MatMul(second.gl, first.gl),
           PtAdd(MatVec(second.gl, first.d), second.d),
           None, Some(est))

----------------------------------------------------------------------------
(* The positions files and corr.readPositions                              *)

\* the rows of a positions file: five cells each, x and y in columns 2 and 3
\* (columns counted from 0); rows counted from 0
DataRow(x, y) == << 0, 0, x, y, 0 >>

\* correlation_data.dat: rows 0-3 overview markers, 4-5 two more points on
\* the line of rows 0 and 1, 6-9 LM markers, 10-12 three more points,
\* 13-16 overview details, 17 the main feature on the mosaic
CorrelationData ==
    << DataRow(0, 0), DataRow(4, 0), DataRow(0, 4), DataRow(4, 4),
       DataRow(8, 0), DataRow(12, 0),
       DataRow(0, 0), DataRow(2, 0), DataRow(0, 2), DataRow(2, 2),
       DataRow(4, 0), DataRow(6, 0), DataRow(1, 1),
       DataRow(1, 1), DataRow(3, 1), DataRow(1, 3), DataRow(3, 3),
       DataRow(5, 7) >>

\* detail_tomo1.dat: stage positions
DetailTomo == << DataRow(2, -1), DataRow(4, -1), DataRow(6, 0), DataRow(5, 1) >>

FileRows(file) == IF file = "correlation_data.dat" THEN CorrelationData ELSE DetailTomo

\* one cell of a row; a negative column counts from the end
Cell(cells, col) == IF col >= 0 THEN cells[col + 1] ELSE cells[Len(cells) + col + 1]

\* the positions of the given rows of a file, in the order of rows
Positions(file, rows, cols) ==
    [k \in 1..Len(rows) |->
        Pt(Cell(FileRows(file)[rows[k] + 1], cols[1]),
           Cell(FileRows(file)[rows[k] + 1], cols[2]))]

\* the attributes of an object that has none
NoAttrs == [a \in {} |-> None]

\* the attributes of an object after some of them are set
SetAttrs(c, attrs) == attrs @@ c

\* corr.readPositions(specs, format, xyColumns): every name of specs becomes
\* an attribute that holds the positions read
ReadPositions(c, specs, cols) ==
    SetAttrs(c, [name \in DOMAIN specs |->
                    Some(Positions(specs[name][1], specs[name][2], cols))])

\* the record of one call of readPositions, for the history
ReadCall(specs, cols) == [names |-> DOMAIN specs, columns |-> cols]

\* the constructor EmLmCorrelation(): the optional fields of the move
\* overview mode start as None
NewCorrelation ==
    SetAttrs(NoAttrs, ("mode" :> None) @@ ("overviewCenter" :> None)
                        @@ ("searchMain" :> None))

----------------------------------------------------------------------------
(* main(): setup and reading of the markers for lm2overview                *)

\* whether a module-level parameter is defined
Defined(name) == name \in par.defined

UnifiedRows == {"lm_markers_rows", "overview_markers_rows"}

SplitRows == {"lm_markers_rows_gl", "lm_markers_rows_d",
              "overview_markers_rows_gl", "overview_markers_rows_d"}

\* pos_read entry for a point set: (file, rows)
PosSpec(name, file, rows_name) == name :> << file, par.rows[rows_name] >>

\* pos_read after the try / except NameError of main(): the entries made
\* before a NameError stay in pos_read; error when a NameError leaves main()
MarkerSpecs ==
    LET first == IF Defined("lm_markers_rows")
                 THEN PosSpec("lmMarkers", par.lm_markers_file, "lm_markers_rows")
                 ELSE NoAttrs
    IN  IF UnifiedRows \subseteq par.defined
        THEN [error |-> FALSE,
              specs |-> first @@ PosSpec("overviewMarkers", par.overview_markers_file,
                                         "overview_markers_rows")]
        ELSE IF SplitRows \subseteq par.defined
        THEN [error |-> FALSE,
              specs |-> first
                        @@ PosSpec("lmMarkersGl", par.lm_markers_file, "lm_markers_rows_gl")
                        @@ PosSpec("lmMarkersD", par.lm_markers_file, "lm_markers_rows_d")
                        @@ PosSpec("overviewMarkersGl", par.overview_markers_file,
                                   "overview_markers_rows_gl")
                        @@ PosSpec("overviewMarkersD", par.overview_markers_file,
                                   "overview_markers_rows_d")]
        ELSE [error |-> TRUE, specs |-> NoAttrs]

\* search_main = search_detail[0] at module level raises NameError when
\* search_detail is commented out
ImportFails(p) == p.search_main = None /\ "search_detail" \notin p.defined

\* the value of search_main after the parameters were executed
SearchMain(p) == IF p.search_main = None THEN p.search_detail[1] ELSE p.search_main[1]

\* the module level of the script: the parameters are executed, then main()
\* is called; an exception there ends the script before main() starts
ImportScript ==
    /\ cpc = "import"
    /\ IF ImportFails(par)
       THEN /\ cpc' = "error"
            /\ cerr' = "NameError"
       ELSE /\ cpc' = "start"
            /\ UNCHANGED cerr
    /\ UNCHANGED << par, corr, reads, fits, mosaic_count, results >>
    /\ UNCHANGED setVars

\* corr = EmLmCorrelation(), the setup of pos_read and the first
\* corr.readPositions
SetupMarkers ==
    /\ cpc = "start"
    /\ IF MarkerSpecs.error
       THEN /\ cpc' = "error"
            /\ cerr' = "NameError"
            /\ corr' = NewCorrelation
            /\ UNCHANGED reads
       ELSE /\ corr' = ReadPositions(NewCorrelation, MarkerSpecs.specs, par.xy_columns)
            /\ reads' = Append(reads, ReadCall(MarkerSpecs.specs, par.xy_columns))
            /\ cpc' = "mosaic"
            /\ UNCHANGED cerr
    /\ UNCHANGED << par, fits, mosaic_count, results >>
    /\ UNCHANGED setVars

----------------------------------------------------------------------------
(* main(): the mosaic correction                                           *)

\* mutant: the correction is made in every mosaic run
MosaicAppliesAnyMode == par.mosaic

\* (overview2search_mode == 'move overview') and mosaic
MosaicApplies == par.overview2search_mode = "move overview" /\ par.mosaic

\* mutant: the two main positions are taken in the other order
MosaicShiftedSwapped(markers, mosaic_markers) ==
    [k \in 1..Len(markers) |->
        PtAdd(PtSub(markers[k], mosaic_markers[2]), mosaic_markers[1])]

\* corr.overviewMarkers - corr.mosaic_markers[0] + corr.mosaic_markers[1]
MosaicShifted(markers, mosaic_markers) ==
    [k \in 1..Len(markers) |->
        PtAdd(PtSub(markers[k], mosaic_markers[1]), mosaic_markers[2])]

\* mosaic_read: the main feature on the mosaic and on the single image
MosaicSpecs ==
    "mosaic_markers" :> << par.overview_detail_file,
                           << par.overview_mosaic_main_row, par.overview_main_row >> >>

\* mosaic correction: shift all overview markers; without the attribute
\* overviewMarkers the expression raises
MosaicCorrection ==
    /\ cpc = "mosaic"
    /\ IF MosaicApplies
       THEN LET c1 == ReadPositions(corr, MosaicSpecs, par.xy_columns) IN
            /\ reads' = Append(reads, ReadCall(MosaicSpecs, par.xy_columns))
            /\ IF "overviewMarkers" \in DOMAIN c1
               THEN /\ corr' = SetAttrs(c1, "overviewMarkers" :>
                                 Some(MosaicShifted(c1["overviewMarkers"][1],
                                                    c1["mosaic_markers"][1])))
                    /\ mosaic_count' = mosaic_count + 1
                    /\ cpc' = "detail"
                    /\ UNCHANGED cerr
               ELSE /\ corr' = c1
                    /\ cpc' = "error"
                    /\ cerr' = "AttributeError"
                    /\ UNCHANGED mosaic_count
       ELSE /\ cpc' = "detail"
            /\ UNCHANGED << corr, reads, cerr, mosaic_count >>
    /\ UNCHANGED << par, fits, results >>
    /\ UNCHANGED setVars

----------------------------------------------------------------------------
(* main(): the details for overview2search and the spots                   *)

OverviewDetailSpecs ==
    "overviewDetail" :> << par.overview_detail_file, par.rows["overview_detail_rows"] >>

SearchDetailSpecs ==
    "searchDetail" :> << par.search_detail_file, par.rows["search_detail_rows"] >>

\* setup move overview mode for overview2search
MoveOverviewAttrs ==
    IF par.overview2search_mode = "move overview"
    THEN ("searchMain" :> Some(SearchMain(par)))
         @@ ("overviewCenter" :> Some(par.overview_center))
    ELSE NoAttrs

\* read overview detail positions, read search detail positions (given
\* directly, or read from a file when search_detail is not defined)
ReadDetail ==
    /\ cpc = "detail"
    /\ LET c1 == ReadPositions(SetAttrs(corr, "mode" :> Some(par.overview2search_mode)),
                               OverviewDetailSpecs, par.overview_detail_xy_columns)
           r1 == Append(reads, ReadCall(OverviewDetailSpecs, par.overview_detail_xy_columns))
       IN  IF Defined("search_detail")
           THEN /\ corr' = SetAttrs(SetAttrs(c1, "searchDetail" :> Some(par.search_detail)),
                                    MoveOverviewAttrs)
                /\ reads' = r1
                /\ cpc' = "spots"
                /\ UNCHANGED cerr
           ELSE IF Defined("search_detail_rows")
           THEN /\ corr' = SetAttrs(ReadPositions(c1, SearchDetailSpecs,
                                                  par.search_detail_xy_columns),
                                    MoveOverviewAttrs)
                /\ reads' = Append(r1, ReadCall(SearchDetailSpecs,
                                                par.search_detail_xy_columns))
                /\ cpc' = "spots"
                /\ UNCHANGED cerr
           ELSE /\ corr' = c1
                /\ reads' = r1
                /\ cpc' = "error"
                /\ cerr' = "NameError"
    /\ UNCHANGED << par, fits, mosaic_count, results >>
    /\ UNCHANGED setVars

\* spot_pos_read at the first and at the second corr.readPositions of the
\* spots: the second call is given the entry of the LM spots again
LmSpotSpecs ==
    IF Defined("lm_spots_rows")
    THEN "lmSpots" :> << par.lm_spots_file, par.rows["lm_spots_rows"] >>
    ELSE NoAttrs

SpotSpecs ==
    IF ~Defined("search_spots") /\ Defined("search_spots_rows")
    THEN LmSpotSpecs
         @@ ("searchSpots" :> << par.search_spots_file, par.rows["search_spots_rows"] >>)
    ELSE LmSpotSpecs

\* the attributes main() sets directly: spots given in the script, labels,
\* and None for what is not defined
SpotAttrs ==
    (IF Defined("lm_spots_rows") THEN NoAttrs ELSE "lmSpots" :> None)
    @@ ("overviewSpots" :>
           IF Defined("overview_spots") THEN Some(par.overview_spots) ELSE None)
    @@ ("overviewSpotLabels" :>
           IF Defined("overview_spot_labels") THEN Some(par.overview_spot_labels) ELSE None)
    @@ ("searchSpots" :>
           IF Defined("search_spots") THEN Some(par.search_spots) ELSE None)
    @@ ("searchSpotLabels" :>
           IF Defined("search_spot_labels") THEN Some(par.search_spot_labels) ELSE None)

\* setup spots: the LM spots are read with lm_spots_xy_columns, then the
\* attributes are set, then all of spot_pos_read is read with
\* search_spots_xy_columns
SetupSpots ==
    /\ cpc = "spots"
    /\ corr' = ReadPositions(
                  SetAttrs(ReadPositions(corr, LmSpotSpecs, par.lm_spots_xy_columns),
                           SpotAttrs),
                  SpotSpecs, par.search_spots_xy_columns)
    /\ reads' = reads \o << ReadCall(LmSpotSpecs, par.lm_spots_xy_columns),
                            ReadCall(SpotSpecs, par.search_spots_xy_columns) >>
    /\ cpc' = "establish"
    /\ UNCHANGED << par, cerr, fits, mosaic_count, results >>
    /\ UNCHANGED setVars

----------------------------------------------------------------------------
(* corr.establish: the fits (specification sections 4.1 and 4.2).  The     *)
(* numbers a least-squares fit returns (matrix, translation, error) are    *)
(* inputs of the step; which fit is made, when it fails and which of the   *)
(* two error attributes it populates follow the specification.             *)

\* the least number of point pairs of a fit
MinPoints(type) == IF type = "gl" THEN 3 ELSE 2

\* twice the area of the triangle of three points
Cross(p, q, r) ==
    RSub(RMul(RSub(q[1], p[1]), RSub(r[2], p[2])),
         RMul(RSub(q[2], p[2]), RSub(r[1], p[1])))

\* the points do not determine the transformation: all on one line (general
\* fit) or all the same (restricted fit)
Degenerate(points, type) ==
    IF type = "gl"
    THEN \A i, j, k \in 1..Len(points) :
            Cross(points[i], points[j], points[k]) = RInt(0)
    ELSE \A i, j \in 1..Len(points) : points[i] = points[j]

\* the error a fit of pointsB to pointsA reports ("none" when it succeeds)
FitError(pointsA, pointsB, type) ==
    IF Len(pointsA) # Len(pointsB) THEN "MismatchedLength"
    ELSE IF Len(pointsA) < MinPoints(type) THEN "InsufficientPoints"
    ELSE IF Degenerate(pointsA, type) THEN "SingularMatrix"
    ELSE "none"

\* the transformation of a successful joint fit: the rms error is exact
\* with more pairs than needed and estimated with just as many
Fit(pointsA, type, out) ==
    IF Len(pointsA) > MinPoints(type)
    THEN Affine(out.gl, out.d, Some(out.err), None)
    ELSE Affine(out.gl, out.d, None, Some(out.err))

\* the error of the translation-only fit of the split strategy
TranslationError(pointsA, pointsB) ==
    IF Len(pointsA) # Len(pointsB) THEN "MismatchedLength"
    ELSE IF Len(pointsA) < 1 THEN "InsufficientPoints"
    ELSE "none"

\* the strategy of the LM - overview fit, from the marker sets present
Strategy(c) ==
    LET unified == {"lmMarkers", "overviewMarkers"}
        split == {"lmMarkersGl", "lmMarkersD", "overviewMarkersGl", "overviewMarkersD"}
    IN  IF unified \subseteq DOMAIN c /\ split \cap DOMAIN c = {} THEN "joint"
        ELSE IF split \subseteq DOMAIN c /\ unified \cap DOMAIN c = {} THEN "split"
        ELSE "error"

\* the fits of the LM - overview stage, as records for the history
LmFits(c) ==
    IF Strategy(c) = "joint"
    THEN << [name |-> "lm2overview", a |-> c["lmMarkers"][1],
             b |-> c["overviewMarkers"][1]] >>
    ELSE IF Strategy(c) = "split"
    THEN << [name |-> "lm2overview gl", a |-> c["lmMarkersGl"][1],
             b |-> c["overviewMarkersGl"][1]],
            [name |-> "lm2overview d", a |-> c["lmMarkersD"][1],
             b |-> c["overviewMarkersD"][1]] >>
    ELSE << >>

\* the error of the LM - overview stage
LmError(c, type) ==
    IF Strategy(c) = "error" THEN "Configuration"
    ELSE IF FitError(LmFits(c)[1].a, LmFits(c)[1].b, type) # "none"
    THEN FitError(LmFits(c)[1].a, LmFits(c)[1].b, type)
    ELSE IF Strategy(c) = "split"
    THEN TranslationError(LmFits(c)[2].a, LmFits(c)[2].b)
    ELSE "none"

\* the fits made until the first failure
FitsUntil(c, type) ==
    IF Strategy(c) = "split" /\ FitError(LmFits(c)[1].a, LmFits(c)[1].b, type) # "none"
    THEN << LmFits(c)[1] >>
    ELSE LmFits(c)

\* the LM - overview transformation of a successful stage: the split
\* strategy has no rms error of its own, its error is estimated
Lm2Overview(c, type, out) ==
    IF Strategy(c) = "joint" THEN Fit(c["lmMarkers"][1], type, out)
    ELSE Affine(out.gl, out.d, None, Some(out.err))

\* the overview - search fit
SearchFit(c) ==
    [name |-> "overview2search", a |-> c["overviewDetail"][1], b |-> c["searchDetail"][1]]

\* corr.establish(lm2overviewType, overview2searchType): the two fits and
\* the composition; a failure leaves the correlation without transformation
Establish(out_lm, out_search, est) ==
    /\ cpc = "establish"
    /\ LET lm_error == LmError(corr, par.lm2overview_type)
           search_error == FitError(SearchFit(corr).a, SearchFit(corr).b,
                                    par.overview2search_type)
           lm2overview == Lm2Overview(corr, par.lm2overview_type, out_lm)
           overview2search == Fit(SearchFit(corr).a, par.overview2search_type, out_search)
       IN  IF lm_error # "none"
           THEN /\ fits' = fits \o FitsUntil(corr, par.lm2overview_type)
                /\ cpc' = "error"
                /\ cerr' = lm_error
                /\ UNCHANGED corr
           ELSE IF search_error # "none"
           THEN /\ fits' = fits \o LmFits(corr) \o << SearchFit(corr) >>
                /\ cpc' = "error"
                /\ cerr' = search_error
                /\ UNCHANGED corr
           ELSE /\ fits' = fits \o LmFits(corr) \o << SearchFit(corr) >>
                /\ corr' = SetAttrs(corr,
                              ("lm2overview" :> lm2overview)
                              @@ ("overview2search" :> overview2search)
                              @@ ("lm2search" :> Compose(lm2overview, overview2search, est)))
                /\ cpc' = "inverse"
                /\ UNCHANGED cerr
    /\ UNCHANGED << par, reads, mosaic_count, results >>
    /\ UNCHANGED setVars

----------------------------------------------------------------------------
(* main(): the inverse correlations                                        *)

\* mutant: the error of the forward transformation is taken over unscaled
Overview2LmUnscaled(fwd, inv) ==
    IF inv.rmsError = None
    THEN IF fwd.rmsError # None
         THEN [inv EXCEPT !.rmsErrorEst = fwd.rmsError]
         ELSE IF fwd.rmsErrorEst # None
         THEN [inv EXCEPT !.rmsErrorEst = fwd.rmsErrorEst]
         ELSE [inv EXCEPT !.rmsError = None]
    ELSE inv

\* mutant: the scaled error is stored as the exact error as well
Overview2LmBoth(fwd, inv) ==
    IF inv.rmsError = None
    THEN LET scale == RSqrt(RMul(Scale(inv)[1], Scale(inv)[2])) IN
         IF fwd.rmsError # None
         THEN [inv EXCEPT !.rmsErrorEst = Some(RMul(fwd.rmsError[1], scale)),
                          !.rmsError = Some(RMul(fwd.rmsError[1], scale))]
         ELSE IF fwd.rmsErrorEst # None
         THEN [inv EXCEPT !.rmsErrorEst = Some(RMul(fwd.rmsErrorEst[1], scale)),
                          !.rmsError = Some(RMul(fwd.rmsErrorEst[1], scale))]
         ELSE [inv EXCEPT !.rmsError = None]
    ELSE inv

\* the error of overview2lm: if corr.overview2lm.rmsError is None, the
\* estimate is the error of lm2overview times
\* numpy.sqrt(numpy.multiply.reduce(corr.overview2lm.scale))
Overview2Lm(fwd, inv) ==
    IF inv.rmsError = None
    THEN LET scale == RSqrt(RMul(Scale(inv)[1], Scale(inv)[2])) IN
         IF fwd.rmsError # None
         THEN [inv EXCEPT !.rmsErrorEst = Some(RMul(fwd.rmsError[1], scale))]
         ELSE IF fwd.rmsErrorEst # None
         THEN [inv EXCEPT !.rmsErrorEst = Some(RMul(fwd.rmsErrorEst[1], scale))]
         ELSE [inv EXCEPT !.rmsError = None]
    ELSE inv

\* mutant: search2lm is made from lm2overview
InverseAttrsWrongSource(c) ==
    ("search2lm" :> Inverse(c["lm2overview"]))
    @@ ("overview2lm" :> Overview2Lm(c["lm2overview"], Inverse(c["lm2overview"])))
    @@ ("search2overview" :> Inverse(c["overview2search"]))

\* corr.search2lm, corr.overview2lm and corr.search2overview
InverseAttrs(c) ==
    ("search2lm" :> Inverse(c["lm2search"]))
    @@ ("overview2lm" :> Overview2Lm(c["lm2overview"], Inverse(c["lm2overview"])))
    @@ ("search2overview" :> Inverse(c["overview2search"]))

\* inverse correlations
Inverses ==
    /\ cpc = "inverse"
    /\ corr' = SetAttrs(corr, InverseAttrs(corr))
    /\ cpc' = "project"
    /\ UNCHANGED << par, cerr, reads, fits, mosaic_count, results >>
    /\ UNCHANGED setVars

----------------------------------------------------------------------------
(* main(): correlation of the spots                                        *)

\* mutant: the overview spots are brought to the LM system with lm2overview
OverviewProjectionsForward(c) ==
    IF c["overviewSpots"] # None
    THEN ("lmFromOverviewSpots" :> Transform(c["lm2overview"], c["overviewSpots"][1]))
         @@ ("searchFromOverviewSpots" :>
                Transform(c["overview2search"], c["overviewSpots"][1]))
    ELSE NoAttrs

\* correlate LM spots
LmProjections(c) ==
    IF c["lmSpots"] # None
    THEN ("searchFromLmSpots" :> Transform(c["lm2search"], c["lmSpots"][1]))
         @@ ("overviewFromLmSpots" :> Transform(c["lm2overview"], c["lmSpots"][1]))
    ELSE NoAttrs

\* correlate overview spots
OverviewProjections(c) ==
    IF c["overviewSpots"] # None
    THEN ("lmFromOverviewSpots" :> Transform(c["overview2lm"], c["overviewSpots"][1]))
         @@ ("searchFromOverviewSpots" :>
                Transform(c["overview2search"], c["overviewSpots"][1]))
    ELSE NoAttrs

\* correlate EM search spots
SearchProjections(c) ==
    IF c["searchSpots"] # None
    THEN ("lmFromSearchSpots" :> Transform(c["search2lm"], c["searchSpots"][1]))
         @@ ("overviewFromSearchSpots" :>
                Transform(c["search2overview"], c["searchSpots"][1]))
    ELSE NoAttrs

CorrelateSpots ==
    /\ cpc = "project"
    /\ corr' = SetAttrs(corr, LmProjections(corr) @@ OverviewProjections(corr)
                                @@ SearchProjections(corr))
    /\ cpc' = "write"
    /\ UNCHANGED << par, cerr, reads, fits, mosaic_count, results >>
    /\ UNCHANGED setVars

----------------------------------------------------------------------------
(* write_results                                                           *)

\* the rms errors the header formats with %6.2f, in the order of the header
HeaderErrors(c) ==
    (IF c["lm2overview"].rmsError # None
     THEN << c["lm2overview"].rmsError, c["overview2lm"].rmsError >>
     ELSE << c["lm2overview"].rmsErrorEst, c["overview2lm"].rmsErrorEst >>)
    \o << c["overview2search"].rmsError, c["search2overview"].rmsError,
          c["lm2search"].rmsErrorEst >>

\* the lines of the move overview mode
HeaderCenter(c) ==
    IF c["overviewCenter"] # None
    THEN << c["overviewCenter"][1], c["searchMain"][1] >>
    ELSE << >>

\* one table of the results file: the spots in the three systems and the
\* labels, when there are labels
SpotTable(title, lm, overview, search, labels) ==
    [title |-> title, lm |-> lm, overview |-> overview, search |-> search,
     labels |-> labels]

\* the tables, in the order of writing
SpotTables(c) ==
    (IF c["lmSpots"] # None /\ Len(c["lmSpots"][1]) > 0
     THEN << SpotTable("LM spots", c["lmSpots"][1], c["overviewFromLmSpots"],
                       c["searchFromLmSpots"], None) >>
     ELSE << >>)
    \o (IF c["overviewSpots"] # None /\ Len(c["overviewSpots"][1]) > 0
        THEN << SpotTable("EM overview spots", c["lmFromOverviewSpots"],
                          c["overviewSpots"][1], c["searchFromOverviewSpots"],
                          c["overviewSpotLabels"]) >>
        ELSE << >>)
    \o (IF c["searchSpots"] # None /\ Len(c["searchSpots"][1]) > 0
        THEN << SpotTable("EM search spots", c["lmFromSearchSpots"],
                          c["overviewFromSearchSpots"], c["searchSpots"][1],
                          c["searchSpotLabels"]) >>
        ELSE << >>)

\* mutant: the results are written also after an exception ended the
\* pipeline
WriteResultsAfterError ==
    /\ cpc \in {"write", "error"}
    /\ results = None
    /\ results' = Some([header |-> << >>, center |-> << >>, tables |-> << >>])
    /\ cpc' = "error"
    /\ cerr' = IF cerr = "none" THEN "TypeError" ELSE cerr
    /\ UNCHANGED << par, corr, reads, fits, mosaic_count >>
    /\ UNCHANGED setVars

\* write_results(corr, res_file_name): the file is opened first; the
\* format %6.2f raises TypeError for None, before anything is written
WriteResults ==
    /\ cpc = "write"
    /\ IF \E k \in 1..Len(HeaderErrors(corr)) : HeaderErrors(corr)[k] = None
       THEN /\ results' = Some([header |-> << >>, center |-> << >>, tables |-> << >>])
            /\ cpc' = "error"
            /\ cerr' = "TypeError"
       ELSE /\ results' = Some([header |-> HeaderErrors(corr),
                                center |-> HeaderCenter(corr),
                                tables |-> SpotTables(corr)])
            /\ cpc' = "done"
            /\ UNCHANGED cerr
    /\ UNCHANGED << par, corr, reads, fits, mosaic_count >>
    /\ UNCHANGED setVars

----------------------------------------------------------------------------
(* The parameters of the script and the start of main()                    *)

\* the parameters as set in the script (the rows as sequences); defined
\* names the parameters that are not commented out.  search_main is None
\* for the line of the script, search_main = search_detail[0], and Some(p)
\* when the position p is written in its place
ScriptPar ==
    [defined |-> {"lm_markers_rows_gl", "lm_markers_rows_d",
                  "overview_markers_rows_gl", "overview_markers_rows_d",
                  "search_detail", "lm_spots_rows", "overview_spot_labels",
                  "search_spots", "search_spot_labels"},
     rows |-> [lm_markers_rows |-> << 6, 7, 8, 9 >>,
               lm_markers_rows_gl |-> << 6, 7, 8, 9 >>,
               lm_markers_rows_d |-> << 6 >>,
               overview_markers_rows |-> << 0, 1, 2, 3 >>,
               overview_markers_rows_gl |-> << 0, 1, 2, 3 >>,
               overview_markers_rows_d |-> << 0 >>,
               overview_detail_rows |-> << 13, 14, 15, 16 >>,
               search_detail_rows |-> << 0, 1, 2 >>,
               lm_spots_rows |-> << 6, 7, 8, 9 >>,
               search_spots_rows |-> << 3 >>],
     positions_file_type |-> "imagej",
     xy_columns |-> << 2, 3 >>,
     lm_markers_file |-> "correlation_data.dat",
     overview_markers_file |-> "correlation_data.dat",
     lm2overview_type |-> "gl",
     overview2search_mode |-> "move search",
     overview_detail_file |-> "correlation_data.dat",
     mosaic |-> FALSE,
     overview_mosaic_main_row |-> 17,
     overview_main_row |-> 13,
     overview_detail_xy_columns |-> << 2, 3 >>,
     search_detail |-> << << RInt(2), Rat(-1, 5) >>, Pt(4, -1), Pt(6, 0),
                          << Rat(26, 5), RInt(1) >> >>,
     search_detail_file |-> "detail_tomo1.dat",
     search_detail_xy_columns |-> << -3, -2 >>,
     search_main |-> None,
     overview_center |-> Pt(400, 400),
     overview2search_type |-> "gl",
     lm_spots_file |-> "correlation_data.dat",
     lm_spots_xy_columns |-> << 2, 3 >>,
     overview_spots |-> << Pt(400, 400) >>,
     overview_spot_labels |-> << "tomo 1, roughly" >>,
     search_spots |-> << Pt(2, -1), Pt(2, 1), Pt(6, 1), Pt(6, -1) >>,
     search_spots_file |-> "detail_tomo1.dat",
     search_spot_labels |-> << "tomo 1", "tomo 2", "axon", "dendrite" >>,
     search_spots_xy_columns |-> << 2, 3 >>,
     results_file |-> "two_step_move-search_gl.dat"]

\* the state when the script is run with one of the given parameter records
InitCorr(pars) ==
    /\ SetIdle
    /\ par \in pars
    /\ corr = << >>
    /\ cpc = "import"
    /\ cerr = "none"
    /\ reads = << >>
    /\ fits = << >>
    /\ mosaic_count = 0
    /\ results = << >>

\* largest rms error a fit reports, in whole units
MaxErr == 2

\* the errors a fit may report
ErrValues == {RInt(e) : e \in 1..MaxErr}

\* a matrix with integer elements
GlOf(a, b, c, d) == << << RInt(a), RInt(b) >>, << RInt(c), RInt(d) >> >>

\* scaling by two, rotation by a right angle, anisotropic scaling, scaling
\* with shear
GlDouble == GlOf(2, 0, 0, 2)

GlRotation == GlOf(0, -1, 1, 0)

GlAnisotropic == GlOf(1, 0, 0, 4)

GlShear == GlOf(2, 1, 0, 2)

\* a restricted fit gives rotation, one scale and parity only
IsSimilarity(gl) ==
    /\ RAdd(RMul(gl[1][1], gl[1][2]), RMul(gl[2][1], gl[2][2])) = RInt(0)
    /\ RAdd(RMul(gl[1][1], gl[1][1]), RMul(gl[2][1], gl[2][1]))
         = RAdd(RMul(gl[1][2], gl[1][2]), RMul(gl[2][2], gl[2][2]))

\* the results a fit of the given type may return
FitResults(matrices, type) ==
    {[gl |-> g, d |-> Pt(1, -2), err |-> e] :
        g \in {m \in matrices : type = "gl" \/ IsSimilarity(m)}, e \in ErrValues}

EstablishAny ==
    /\ cpc = "establish"
    /\ \E out_lm \in FitResults({GlDouble, GlRotation, GlAnisotropic, GlShear},
                                par.lm2overview_type),
          out_search \in FitResults({GlDouble, GlRotation, GlAnisotropic},
                                    par.overview2search_type),
          est \in ErrValues :
          Establish(out_lm, out_search, est)

----------------------------------------------------------------------------
(* SpecConfig: main() over the marker parameters that are defined          *)

\* the script with any of the six marker row parameters defined, in the
\* three modes
ConfigPars ==
    {[ScriptPar EXCEPT !.defined = (ScriptPar.defined \ SplitRows) \cup markers,
                       !.overview2search_mode = mode[1],
                       !.mosaic = mode[2]] :
        markers \in SUBSET (UnifiedRows \cup SplitRows),
        mode \in { << "move search", FALSE >>, << "move overview", FALSE >>,
                   << "move overview", TRUE >> }}

InitConfig == InitCorr(ConfigPars)

ConfigEstablish ==
    /\ cpc = "establish"
    /\ \E e \in ErrValues :
          Establish([gl |-> GlDouble, d |-> Pt(1, -2), err |-> e],
                    [gl |-> GlRotation, d |-> Pt(1, -2), err |-> e], e)

NextConfig ==
    \/ ImportScript \/ SetupMarkers \/ MosaicCorrection \/ ReadDetail \/ SetupSpots
    \/ ConfigEstablish \/ Inverses \/ CorrelateSpots \/ WriteResults

SpecConfig == InitConfig /\ [][NextConfig]_vars

----------------------------------------------------------------------------
(* SpecCorr: main() over marker rows, detail rows, modes and fit results   *)

\* the rows of a parameter record replaced for some row parameters
WithRows(p, new_rows) == [p EXCEPT !.rows = new_rows @@ p.rows]

\* the unified marker parameters defined instead of the split ones
Unified(p) == [p EXCEPT !.defined = (p.defined \ SplitRows) \cup UnifiedRows]

\* marker rows: four pairs, three pairs, two pairs (too few for a general
\* fit), two pairs for a restricted fit, three LM markers on a line, sets
\* of different length, and the split parameters of the script
MarkerVariants(p) ==
    { Unified(p),
      WithRows(Unified(p), [lm_markers_rows |-> << 6, 7, 8 >>,
                            overview_markers_rows |-> << 0, 1, 2 >>]),
      WithRows(Unified(p), [lm_markers_rows |-> << 6, 7 >>,
                            overview_markers_rows |-> << 0, 1 >>]),
      [WithRows(Unified(p), [lm_markers_rows |-> << 6, 7 >>,
                             overview_markers_rows |-> << 0, 1 >>])
          EXCEPT !.lm2overview_type = "rs"],
      WithRows(Unified(p), [lm_markers_rows |-> << 6, 7, 10 >>,
                            overview_markers_rows |-> << 0, 1, 4 >>]),
      WithRows(Unified(p), [overview_markers_rows |-> << 0, 1, 2 >>]),
      p }

\* the position written for search_main where search_detail is commented out
SearchMainGiven == Some(<< RInt(2), Rat(-1, 5) >>)

\* details: four pairs with the search details of the script; three pairs
\* and two pairs with the search details read from a file and search_main
\* written as a position; search details that are not defined at all, with
\* search_main written as a position; and search_detail commented out for
\* the details of a file while search_main is left as search_detail[0]
DetailVariants(p) ==
    { p,
      [WithRows(p, [overview_detail_rows |-> << 13, 14, 15 >>])
          EXCEPT !.defined = (p.defined \ {"search_detail"}) \cup {"search_detail_rows"},
                 !.search_main = SearchMainGiven],
      [WithRows(p, [overview_detail_rows |-> << 13, 14 >>,
                    search_detail_rows |-> << 0, 1 >>])
          EXCEPT !.defined = (p.defined \ {"search_detail"}) \cup {"search_detail_rows"},
                 !.search_main = SearchMainGiven],
      [p EXCEPT !.defined = p.defined \ {"search_detail"},
                !.search_main = SearchMainGiven],
      [p EXCEPT !.defined = (p.defined \ {"search_detail"}) \cup {"search_detail_rows"}] }

\* the modes, with and without mosaic
ModeVariants(p) ==
    {[p EXCEPT !.overview2search_mode = mode, !.mosaic = mosaic] :
        mode \in {"move search", "move overview"}, mosaic \in BOOLEAN}

CorrPars ==
    UNION {UNION {ModeVariants(d) : d \in DetailVariants(m)} : m \in MarkerVariants(ScriptPar)}

InitCorrelation == InitCorr(CorrPars)

NextCorr ==
    \/ ImportScript \/ SetupMarkers \/ MosaicCorrection \/ ReadDetail \/ SetupSpots
    \/ EstablishAny \/ Inverses \/ CorrelateSpots \/ WriteResults

SpecCorr == InitCorrelation /\ [][NextCorr]_vars

----------------------------------------------------------------------------
(* SpecSpots: main() over the spots that are defined and fit results       *)

\* the spots: LM spots defined or not, overview spots defined or not, search
\* spots given in the script, read from a file or not defined, and the
\* columns of the search spots
SpotVariants(p) ==
    {[p EXCEPT !.defined = (p.defined \ {"lm_spots_rows", "search_spots"}) \cup spots,
               !.search_spots_xy_columns = cols] :
        spots \in {d \in SUBSET {"lm_spots_rows", "overview_spots", "search_spots",
                                 "search_spots_rows"} :
                      ~({"search_spots", "search_spots_rows"} \subseteq d)},
        cols \in { << 2, 3 >>, << 3, 2 >> }}

InitSpots == InitCorr(SpotVariants(Unified(ScriptPar)))

SpecSpots == InitSpots /\ [][NextCorr]_vars

----------------------------------------------------------------------------
(* Claims about adjust_box_coords, stated for SpecBox *)

Axes == 1..3

\* the box fits the current tomogram on every axis
BoxFits == tomo_shape # << >> /\ \A ax \in Axes : box_size <= tomo_shape[ax]

\* adjust_box_coords has set the corners of the current centres
Adjusted == pc \in {"write", "add"}

\* the left corner of the box centred at c, before any shift
NaiveLeft(c) == c - (box_size \div 2)

\* C1: for every centre, also one outside the volume, and every box size
\* that does not exceed the shape on any axis, the left corner L that
\* adjust_box_coords produces has 0 <= L and L + box_size <= shape on every
\* axis.
C1_BoxInsideVolume ==
    (Adjusted /\ BoxFits) =>
        /\ Len(left_corners) = Len(centers_abs)
        /\ \A j \in 1..Len(left_corners) : \A ax \in Axes :
              /\ 0 <= left_corners[j][ax]
              /\ left_corners[j][ax] + box_size <= tomo_shape[ax]

\* a centre that lies below the volume on one axis and beyond it on another
\* was adjusted
C1_Witness ==
    /\ pc = "write"
    /\ BoxFits
    /\ \E j \in 1..Len(centers_abs) : \E ax1, ax2 \in Axes :
          /\ centers_abs[j][ax1] < 0
          /\ centers_abs[j][ax2] >= tomo_shape[ax2]

\* C2 (state part): the box-too-large error is raised exactly when box_size
\* exceeds the shape on at least one axis, whatever the number of centres.
C2_ErrorIffTooLarge ==
    (err = "BoxTooLarge") <=>
        (tomo_shape # << >> /\ \E ax \in Axes : box_size > tomo_shape[ax])

\* C2 (step part): the step that raises the error leaves the stored left
\* corners and centres unchanged.
C2_ErrorKeepsStored ==
    (err # "BoxTooLarge" /\ err' = "BoxTooLarge") =>
        (left_corners' = left_corners /\ centers' = centers)

\* C2: adjust_box_coords fails with the box-too-large error exactly when
\* box_size exceeds the shape on at least one axis (equal is accepted), for
\* any number of centres, and on error the stored left corners and centres
\* are unchanged.
C2_BoxTooLargeError == [] C2_ErrorIffTooLarge /\ [][C2_ErrorKeepsStored]_vars

\* the error was raised for an empty centre list while corners of an earlier
\* dataset were stored
C2_Witness ==
    /\ err = "BoxTooLarge"
    /\ centers_abs = << >>
    /\ left_corners # << >>

\* C3: for b <= s the two-pass clamp returns on each axis
\* left = min(max(c - b div 2, 0), s - b) and centre = left + b div 2; with
\* shape 100 and box 10, centre 2 gives left 0, centre 5 and centre 98 gives
\* left 90, centre 95.
C3_ClampFormula ==
    /\ (Adjusted /\ BoxFits) =>
          /\ Len(left_corners) = Len(centers_abs)
          /\ Len(centers) = Len(centers_abs)
          /\ \A j \in 1..Len(centers_abs) : \A ax \in Axes :
                /\ left_corners[j][ax] =
                      Min2(Max2(centers_abs[j][ax] - (box_size \div 2), 0),
                           tomo_shape[ax] - box_size)
                /\ centers[j][ax] = left_corners[j][ax] + (box_size \div 2)
    /\ (/\ Adjusted
        /\ tomo_shape = << 100, 100, 100 >>
        /\ box_size = 10
        /\ centers_abs = << << 2, 2, 2 >>, << 98, 98, 98 >> >>) =>
          /\ left_corners = << << 0, 0, 0 >>, << 90, 90, 90 >> >>
          /\ centers = << << 5, 5, 5 >>, << 95, 95, 95 >> >>

\* the example of the specification was adjusted
C3_Witness ==
    /\ pc = "write"
    /\ tomo_shape = << 100, 100, 100 >>
    /\ box_size = 10
    /\ centers_abs = << << 2, 2, 2 >>, << 98, 98, 98 >> >>

\* the shifts d that bring the box with naive left corner l inside an axis
\* of extent s
FittingShifts(l, s) ==
    {d \in (-(Abs(l) + s))..(Abs(l) + s) : 0 <= l + d /\ l + d + box_size <= s}

\* C4: on an axis where the naive box [c - b div 2, c - b div 2 + b) lies
\* inside the volume the left corner stays c - b div 2 and the corrected
\* centre is c; on any other axis the corrected centre differs from c by the
\* smallest shift that brings the box inside.
C4_MinimalShift ==
    (Adjusted /\ BoxFits) =>
        \A j \in 1..Len(centers_abs) : \A ax \in Axes :
            LET l == NaiveLeft(centers_abs[j][ax])
                s == tomo_shape[ax]
                shift == left_corners[j][ax] - l
            IN  /\ centers[j][ax] - centers_abs[j][ax] = shift
                /\ shift \in FittingShifts(l, s)
                /\ \A d \in FittingShifts(l, s) : Abs(shift) <= Abs(d)
                /\ (0 <= l /\ l + box_size <= s) =>
                      /\ left_corners[j][ax] = l
                      /\ centers[j][ax] = centers_abs[j][ax]

\* a centre was adjusted whose box needed a shift on one axis and none on
\* another, where it ends at the boundary of the volume
C4_Witness ==
    /\ pc = "write"
    /\ BoxFits
    /\ \E j \in 1..Len(centers_abs) : \E ax1, ax2 \in Axes :
          /\ left_corners[j][ax1] # NaiveLeft(centers_abs[j][ax1])
          /\ NaiveLeft(centers_abs[j][ax2]) + box_size = tomo_shape[ax2]
          /\ left_corners[j][ax2] = NaiveLeft(centers_abs[j][ax2])


----------------------------------------------------------------------------
(* Claims about extract_particles and add_data, stated for Spec *)

\* the identifier is contained in at least one of the named groups
InNamedGroup(ident) == \E g \in Range(group_names) : ident \in StructIdentifiers(g)

\* the loop has finished the group search of the k-th identifier
Searched(k) == k < idx \/ (k = idx /\ pc # "loop")

\* the configuration error was raised for the k-th identifier
NoGroupRaisedAt(k) == err = "NoGroup" /\ k = idx

\* C7: extract_particles raises the configuration error for an identifier
\* if and only if the identifier is contained in none of the groups named
\* in group_names.
C7_NoGroupError ==
    \A k \in 1..Len(identifiers) :
        Searched(k) => (NoGroupRaisedAt(k) <=> ~InNamedGroup(identifiers[k]))

\* the error was raised for the second identifier, with two groups named
\* and the first identifier found in the second of them
C7_Witness ==
    /\ err = "NoGroup"
    /\ idx = 2
    /\ Len(group_names) = 2
    /\ identifiers[1] \notin StructIdentifiers(group_names[1])

\* the (dataset identifier, object id) pairs of the datasets read
ProcessedPairs ==
    UNION {{<< processed[k].identifier, i >> : i \in Range(processed[k].ids)} :
              k \in 1..Len(processed)}

\* the rows of the catalog that belong to a pair
RowsOfPair(p) == {i \in 1..Len(data) : << data[i].identifier, data[i].id >> = p}

\* the number of times the dataset of a pair was read with that object id
ReadsOfPair(p) ==
    {k \in 1..Len(processed) :
        processed[k].identifier = p[1] /\ p[2] \in Range(processed[k].ids)}

\* C8 as stated: after a successful call, for any list of identifiers, the
\* catalog holds exactly one row for each (dataset identifier, object id)
\* pair of the processed datasets.
C8_Original ==
    pc = "done" => \A p \in ProcessedPairs : Cardinality(RowsOfPair(p)) = 1

\* C8 as amended: after a successful call every row belongs to a pair of the
\* processed datasets, no pair is missing, and a pair has as many rows as
\* its dataset was processed: exactly one when the identifiers of the list
\* are pairwise distinct.
C8_OneRowPerPair ==
    pc = "done" =>
        /\ \A i \in 1..Len(data) : << data[i].identifier, data[i].id >> \in ProcessedPairs
        /\ \A p \in ProcessedPairs :
              /\ Cardinality(RowsOfPair(p)) >= 1
              /\ Cardinality(RowsOfPair(p)) = Cardinality(ReadsOfPair(p))
              /\ Injective(identifiers) => Cardinality(RowsOfPair(p)) = 1

\* a call over two distinct identifiers returned, both datasets with objects
C8_Witness ==
    /\ pc = "done"
    /\ Len(identifiers) = 2
    /\ Injective(identifiers)
    /\ \A k \in 1..Len(processed) : processed[k].ids # << >>

RECURSIVE PairsInOrder(_)
\* the (identifier, id) pairs of a sequence of datasets: dataset after
\* dataset, within a dataset in the order of its ids
PairsInOrder(sets) ==
    IF sets = << >> THEN << >>
    ELSE [j \in 1..Len(sets[1].ids) |-> << sets[1].identifier, sets[1].ids[j] >>]
         \o PairsInOrder(Tail(sets))

\* C9 (state part): the rows are those of the datasets whose add_data call
\* was made, in identifier iteration order and, within one dataset, in the
\* order of its object ids.
C9_RowsInOrder ==
    [i \in 1..Len(data) |-> << data[i].identifier, data[i].id >>]
        = PairsInOrder(SubSeq(processed, 1, idx - 1))

\* C9 (step part): every step keeps the rows of the catalog, content and
\* position, and add_data puts one row for each id of the current dataset
\* after them.
C9_RowsKept ==
    /\ IsPrefix(data, data')
    /\ pc = "add" =>
          /\ Len(data') = Len(data) + Len(ids)
          /\ \A j \in 1..Len(ids) :
                /\ data'[Len(data) + j].identifier = identifiers[idx]
                /\ data'[Len(data) + j].id = ids[j]

\* C9: the particle catalog is append-only and ordered.
C9_AppendOnlyOrdered == [] C9_RowsInOrder /\ [][C9_RowsKept]_vars

\* two datasets were added, the second with two ids that are not ascending
C9_Witness ==
    /\ pc = "loop"
    /\ idx = 3
    /\ processed[1].ids # << >>
    /\ processed[2].ids = << 2, 1 >>
    /\ Len(data) = Len(processed[1].ids) + 2


----------------------------------------------------------------------------
(* Claims about clipping in write_particles, stated for SpecClip *)

\* the ends of the representable range of the target dtype, as samples
LowEnd == RangeMin(dtype) * SampleDenom

HighEnd == RangeMax(dtype) * SampleDenom

\* a sample clamped to the representable range
Clamped(v) == IF v > HighEnd THEN HighEnd ELSE IF v < LowEnd THEN LowEnd ELSE v

\* w is the whole number next to v in the direction of zero (v itself when
\* v is whole)
IsTruncationOf(w, v) ==
    /\ w % SampleDenom = 0
    /\ Abs(w) <= Abs(v)
    /\ Abs(v) - Abs(w) < SampleDenom
    /\ (v >= 0 => w >= 0)
    /\ (v <= 0 => w <= 0)

\* C5 as stated: with a target dtype every sample of the written particle
\* equals the input sample clamped to the range of the dtype, so that
\* samples in the range keep their value.
C5_Original ==
    dtype # "None" =>
        \A k \in 1..Len(written) : \A i \in 1..Len(written[k].input) :
            written[k].samples[i] = Clamped(written[k].input[i])

\* C5 as amended: with a target (integer) dtype every sample of the written
\* particle equals the input sample clamped to the range of the dtype and
\* then cut to a whole number toward zero: samples above max become max (200
\* becomes 127 for int8), samples below min become min, whole samples in the
\* range keep their value and the other samples in the range lose their
\* fraction.
C5_ClampedAndCut ==
    dtype # "None" =>
        \A k \in 1..Len(written) :
            /\ Len(written[k].samples) = Len(written[k].input)
            /\ \A i \in 1..Len(written[k].input) :
                  LET v == written[k].input[i]
                      w == written[k].samples[i]
                  IN  /\ IsTruncationOf(w, Clamped(v))
                      /\ v > HighEnd => w = HighEnd
                      /\ v < LowEnd => w = LowEnd
                      /\ (v % SampleDenom = 0 /\ LowEnd <= v /\ v <= HighEnd) => w = v
                      /\ (dtype = "int8" /\ v = 200 * SampleDenom) =>
                            w = 127 * SampleDenom

\* a particle was written as int8 from the sample 200 and a negative sample
\* in the range that is not whole
C5_Witness ==
    /\ dtype = "int8"
    /\ \E k \in 1..Len(written) :
          /\ written[k].input[1] = 200 * SampleDenom
          /\ written[k].samples[1] = 127 * SampleDenom
          /\ written[k].input[2] = Int8Min * SampleDenom + 1
          /\ written[k].samples[2] = (Int8Min + 1) * SampleDenom

\* at least one sample lies outside the range of the target dtype
OutOfRange(samples) ==
    /\ dtype # "None"
    /\ \E i \in 1..Len(samples) : samples[i] < LowEnd \/ samples[i] > HighEnd

\* C6: a clip warning is emitted for a particle if and only if one of its
\* samples lies outside the range of the target dtype, and it is not fatal:
\* no error ends the run, the clipped particle and the particles after it
\* are written, and the rows of the dataset are appended to the catalog.
C6_ClipWarning ==
    /\ \A k \in 1..Len(written) :
          (written[k].path \in Range(warned)) <=> OutOfRange(written[k].input)
    /\ \A k \in 1..Len(warned) : \E j \in 1..Len(written) : written[j].path = warned[k]
    /\ err = "none"
    /\ pc = "add" =>
          /\ Len(written) = Len(ids)
          /\ \A j \in 1..Len(ids) : written[j].path = particle_paths[j]
    /\ (pc = "done" \/ (pc = "loop" /\ idx > 1)) =>
          /\ Len(written) = Len(ids)
          /\ Len(data) = Len(ids)
          /\ \A j \in 1..Len(ids) : data[j].particle_path = written[j].path

\* the run is over: the first of two particles was clipped with a warning,
\* the second was written without one, and both have their row
C6_Witness ==
    /\ pc = "done"
    /\ Len(ids) = 2
    /\ warned = << particle_paths[1] >>
    /\ Len(written) = 2
    /\ Len(data) = 2

----------------------------------------------------------------------------
(* Claims about the file names of write_particles, stated for SpecNames *)

\* the number of decimal digits of n >= 0
DecimalDigits(n) == IF n = 0 THEN 1 ELSE CHOOSE d \in 1..9 : 10^(d - 1) <= n /\ n < 10^d

\* s comes before t in the lexicographic order of the digit strings
LexLess(s, t) ==
    \E k \in 0..Min2(Len(s), Len(t)) :
        /\ \A i \in 1..k : s[i] = t[i]
        /\ \/ (k = Len(s) /\ k < Len(t))
           \/ (k < Len(s) /\ k < Len(t) /\ s[k + 1] < t[k + 1])

\* write_particles was called for a batch that is not empty
NamedBatch == ids # << >> /\ (pc \in {"add", "done"} \/ err = "Format" \/ (pc = "loop" /\ idx > 1))

\* C10: for every non-empty batch of non-negative ids the file names that
\* write_particles produces have one length, their lexicographic order is
\* the numeric order of the ids (keep_ids) or of the ranks from 0 (not
\* keep_ids), and the zero-pad width is the number of decimal digits of the
\* largest id, respectively of the number of ids.
C10_Original ==
    NamedBatch =>
        LET nums == NameNumbers(ids, keep_ids)
            width == DecimalDigits(IF keep_ids THEN SeqMax(ids) ELSE Len(ids))
        IN  /\ err = "none"
            /\ Len(particle_paths) = Len(ids)
            /\ \A j \in 1..Len(ids) : Len(particle_paths[j].digits) = width
            /\ \A i, j \in 1..Len(ids) :
                  (nums[i] < nums[j]) <=>
                      LexLess(particle_paths[i].digits, particle_paths[j].digits)

\* the same without the keep_ids batches whose largest id is 0: these are
\* the only batches for which the names are not formed
NamesOfPositiveBatches == (keep_ids /\ ids # << >> /\ SeqMax(ids) = 0) \/ C10_Original

----------------------------------------------------------------------------
(* Claims about the normalisation in write_particles, stated for SpecStd *)

\* C11: when a std target is configured and the extracted sub-volume has
\* zero standard deviation, write_particles reports an error for that
\* particle and no particle file is written from that sub-volume.
C11_Original ==
    std # << >> =>
        \A k \in 1..Len(written) : ~ZeroStd(written[k].input)

\* (auxiliary) without a zero standard deviation the scaled particle has the
\* target standard deviation
StdReached ==
    (std # << >> /\ mean = << >> /\ dtype = "None") =>
        \A k \in 1..Len(written) :
            ~ZeroStd(written[k].input) =>
                /\ written[k].kind = "finite"
                /\ Spread(written[k].samples) = (8 * std[1]) * (8 * std[1])

----------------------------------------------------------------------------
(* Claims about the marker parameters of main(), stated for SpecConfig *)

UnifiedSets == {"lmMarkers", "overviewMarkers"}

SplitSets == {"lmMarkersGl", "lmMarkersD", "overviewMarkersGl", "overviewMarkersD"}

\* the marker point sets read so far
MarkersRead ==
    UNION {reads[k].names : k \in 1..Len(reads)} \cap (UnifiedSets \cup SplitSets)

\* main() has set up the markers
MarkersSetUp == cpc \notin {"import", "start"}

OnlyUnified == UnifiedRows \subseteq par.defined /\ SplitRows \cap par.defined = {}

OnlySplit == SplitRows \subseteq par.defined /\ UnifiedRows \cap par.defined = {}

\* (auxiliary) the two first statements of C12: with only the unified
\* parameters exactly lmMarkers and overviewMarkers are read, with only the
\* split parameters exactly the four split point sets
PureConfigurations ==
    /\ (OnlyUnified /\ MarkersSetUp) => MarkersRead = UnifiedSets
    /\ (OnlySplit /\ MarkersSetUp) => MarkersRead = SplitSets

\* C12: with only the unified marker row parameters defined exactly
\* lmMarkers and overviewMarkers are read, with only the split parameters
\* defined exactly the four split point sets are read, and point sets of the
\* two kinds are never read together.
C12_Original ==
    /\ PureConfigurations
    /\ ~(MarkersRead \cap UnifiedSets # {} /\ MarkersRead \cap SplitSets # {})

\* C13: when both the unified and the split marker parameters are defined,
\* or neither of them, main() stops with an error before any positions are
\* read and before any fit, and no transformation is established.
C13_Original ==
    ((UnifiedRows \subseteq par.defined /\ SplitRows \subseteq par.defined)
       \/ (UnifiedRows \cup SplitRows) \cap par.defined = {})
    => /\ reads = << >>
       /\ fits = << >>
       /\ cpc \in {"import", "start", "error"}
       /\ "lm2overview" \notin DOMAIN corr

\* (auxiliary) with none of the marker parameters defined main() stops with
\* a NameError before any positions are read
NeitherStops ==
    ((UnifiedRows \cup SplitRows) \cap par.defined = {} /\ MarkersSetUp)
    => (cpc = "error" /\ cerr = "NameError" /\ reads = << >> /\ fits = << >>)

----------------------------------------------------------------------------
(* Claims about the mosaic correction, stated for SpecCorr *)

\* the overview markers as read from the file
MarkersAsRead ==
    Positions(par.overview_markers_file, par.rows["overview_markers_rows"],
              par.xy_columns)

\* the point read from row overview_mosaic_main_row
MosaicMainPosition ==
    Positions(par.overview_detail_file, << par.overview_mosaic_main_row >>,
              par.xy_columns)[1]

\* the point read from row overview_main_row
SingleImageMainPosition ==
    Positions(par.overview_detail_file, << par.overview_main_row >>,
              par.xy_columns)[1]

\* the overview markers of the correlation are the markers read, each
\* shifted by the vector shift
ShiftedBy(shift) ==
    /\ Len(corr["overviewMarkers"][1]) = Len(MarkersAsRead)
    /\ \A k \in 1..Len(MarkersAsRead) :
          corr["overviewMarkers"][1][k] = PtAdd(MarkersAsRead[k], shift)

\* the differences between the overview markers are those of the markers read
DifferencesKept ==
    \A i, j \in 1..Len(MarkersAsRead) :
        PtSub(corr["overviewMarkers"][1][i], corr["overviewMarkers"][1][j])
          = PtSub(MarkersAsRead[i], MarkersAsRead[j])

\* C14 as stated: the mosaic correction shifts every overview marker by
\* (mosaic_main_position - single_image_main_position) and keeps the
\* differences between the markers.
C14_Original ==
    mosaic_count > 0 =>
        /\ ShiftedBy(PtSub(MosaicMainPosition, SingleImageMainPosition))
        /\ DifferencesKept

\* C14 (amended): the mosaic correction shifts every overview marker by
\* (single_image_main_position - mosaic_main_position), the point of row
\* overview_main_row minus the point of row overview_mosaic_main_row, and
\* keeps the differences between the markers.
C14_MosaicShift ==
    mosaic_count > 0 =>
        /\ ShiftedBy(PtSub(SingleImageMainPosition, MosaicMainPosition))
        /\ DifferencesKept

\* the correction was made on at least two markers, with a shift that is
\* not zero
C14_Witness ==
    /\ mosaic_count > 0
    /\ Len(MarkersAsRead) >= 2
    /\ MosaicMainPosition # SingleImageMainPosition
    /\ corr["overviewMarkers"][1] # MarkersAsRead

\* the overview markers of a fit of the LM - overview stage, as read from
\* the file
ReadForFit(name) ==
    Positions(par.overview_markers_file,
              par.rows[IF name = "lm2overview" THEN "overview_markers_rows"
                       ELSE IF name = "lm2overview gl" THEN "overview_markers_rows_gl"
                       ELSE "overview_markers_rows_d"],
              par.xy_columns)

\* the fits of the LM - overview stage made so far
MarkerFits == {k \in 1..Len(fits) : fits[k].name # "overview2search"}

\* the correction is made at most once, only in the mode 'move overview'
\* with mosaic, and is made when a fit is reached in that configuration;
\* otherwise the fit is given the overview markers as read
C15_OnceAndOnlyMosaic ==
    /\ mosaic_count <= 1
    /\ mosaic_count = 1 => (par.overview2search_mode = "move overview" /\ par.mosaic)
    /\ \A k \in MarkerFits :
          IF par.overview2search_mode = "move overview" /\ par.mosaic
          THEN /\ mosaic_count = 1
               /\ fits[k].b = MosaicShifted(ReadForFit(fits[k].name),
                                            << MosaicMainPosition, SingleImageMainPosition >>)
          ELSE /\ mosaic_count = 0
               /\ fits[k].b = ReadForFit(fits[k].name)

\* the correction is made while no fit has been made
C15_BeforeFirstFit ==
    mosaic_count' # mosaic_count => (fits = << >> /\ fits' = << >>)

\* C15: the mosaic correction is applied exactly once per run and strictly
\* before the first fit, and only when overview2search_mode is 'move
\* overview' and mosaic is true; in every other configuration the overview
\* markers given to the fit are exactly the coordinates that were read.
C15_MosaicOnce == [] C15_OnceAndOnlyMosaic /\ [][C15_BeforeFirstFit]_vars

\* a fit was made after the correction, and the markers it was given
\* differ from the markers read
C15_Witness ==
    /\ mosaic_count = 1
    /\ MarkerFits # {}
    /\ \E k \in MarkerFits : fits[k].b # ReadForFit(fits[k].name)

----------------------------------------------------------------------------
(* Claims about corr.establish and the inverses, stated for SpecCorr *)

ForwardTransforms == {"lm2overview", "overview2search", "lm2search"}

InverseTransforms == {"overview2lm", "search2overview", "search2lm"}

ProjectionSets == {"searchFromLmSpots", "overviewFromLmSpots", "lmFromOverviewSpots",
                   "searchFromOverviewSpots", "lmFromSearchSpots",
                   "overviewFromSearchSpots"}

\* a fit of corr.establish failed
FitFailed == cerr \in {"InsufficientPoints", "SingularMatrix", "MismatchedLength"}

\* C16: establishment is all-or-nothing: if a fit inside corr.establish
\* fails the run ends there, no transformation is established, no inverse is
\* computed, no spot is projected and no results file is written; a results
\* file exists only in runs where the three forward transformations and the
\* three inverses exist.
C16_AllOrNothing ==
    /\ FitFailed =>
          /\ cpc = "error"
          /\ DOMAIN corr \cap (ForwardTransforms \cup InverseTransforms
                                 \cup ProjectionSets) = {}
          /\ results = None
    /\ results # None =>
          (ForwardTransforms \cup InverseTransforms) \subseteq DOMAIN corr

\* the overview - search fit failed after the LM - overview fit was made
C16_Witness ==
    /\ FitFailed
    /\ Len(fits) >= 2
    /\ fits[Len(fits)].name = "overview2search"

\* the pairs of a forward transformation and the inverse main() derives
\* from it
InversePairs ==
    { << "lm2overview", "overview2lm" >>, << "overview2search", "search2overview" >>,
      << "lm2search", "search2lm" >> }

\* the inverses were computed
InversesComputed == InverseTransforms \subseteq DOMAIN corr

\* sqrt(product of the two scale factors of a transformation)
SqrtOfScaleProduct(t) == RSqrt(RMul(Scale(t)[1], Scale(t)[2]))

\* the error of an inverse follows from the error of the forward
\* transformation
ErrorPropagated(fwd, inv) ==
    IF fwd.rmsError # None
    THEN inv.rmsErrorEst = Some(RMul(fwd.rmsError[1], SqrtOfScaleProduct(inv)))
    ELSE IF fwd.rmsErrorEst # None
    THEN inv.rmsErrorEst = Some(RMul(fwd.rmsErrorEst[1], SqrtOfScaleProduct(inv)))
    ELSE inv.rmsError = None /\ inv.rmsErrorEst = None

\* C17: for each of the three inverses (overview->LM, search->overview,
\* search->LM): if the forward transformation has an exact rms error, the
\* inverse carries an estimated error equal to the forward error times
\* sqrt(product of the inverse's two scale factors); if the forward error
\* is estimated, the inverse carries an estimated error with the same
\* scaling; if the forward transformation has neither, the inverse has
\* neither.
C17_InverseError ==
    InversesComputed =>
        \A pair \in InversePairs : ErrorPropagated(corr[pair[1]], corr[pair[2]])

\* the inverses were computed from an LM - overview fit with an exact error
\* and from one that changes areas
C17_Witness ==
    /\ InversesComputed
    /\ corr["lm2overview"].rmsError # None
    /\ SqrtOfScaleProduct(corr["overview2lm"]) # RInt(1)
    /\ corr["overview2lm"].rmsErrorEst # corr["lm2overview"].rmsError

\* C18: in every state after the inverses have been computed, each of the
\* six transformations has exactly one of rmsError and rmsErrorEst
\* populated.
C18_ExactlyOneError ==
    InversesComputed =>
        \A name \in ForwardTransforms \cup InverseTransforms :
            (corr[name].rmsError # None) # (corr[name].rmsErrorEst # None)

\* the inverses were computed, of fits with an exact and with an estimated
\* error
C18_Witness ==
    /\ InversesComputed
    /\ corr["overview2search"].rmsError # None
    /\ corr["lm2overview"].rmsErrorEst # None

----------------------------------------------------------------------------
(* Claims about the projections of the spots, stated for SpecSpots *)

\* the spots were correlated
Projected == InversesComputed /\ cpc # "project"

\* for each spot set, the two projections main() makes of it and the
\* transformation each is expected to use
ExpectedProjections ==
    ("lmSpots" :> { << "overviewFromLmSpots", "lm2overview" >>,
                    << "searchFromLmSpots", "lm2search" >> })
    @@ ("overviewSpots" :> { << "lmFromOverviewSpots", "overview2lm" >>,
                             << "searchFromOverviewSpots", "overview2search" >> })
    @@ ("searchSpots" :> { << "overviewFromSearchSpots", "search2overview" >>,
                           << "lmFromSearchSpots", "search2lm" >> })

SpotSets == DOMAIN ExpectedProjections

\* a spot set that is supplied is projected with the expected
\* transformations, one that is not supplied has no projection
ProjectedAsExpected(spots) ==
    \A proj \in ExpectedProjections[spots] :
        IF corr[spots] # None
        THEN /\ proj[1] \in DOMAIN corr
             /\ corr[proj[1]] = Transform(corr[proj[2]], corr[spots][1])
        ELSE proj[1] \notin DOMAIN corr

\* C19: each supplied spot set is projected into both other systems with
\* the matching transform: LM spots with lm2overview and lm2search, overview
\* spots with overview2lm and overview2search, search spots with
\* search2overview and search2lm; a spot set that is not supplied produces
\* no projection, and what happens to one spot set does not depend on the
\* other two.
C19_SpotsProjected ==
    Projected => \A spots \in SpotSets : ProjectedAsExpected(spots)

\* the spots were correlated, the overview spots were supplied and moved by
\* both transformations, and another spot set was not supplied
C19_Witness ==
    /\ Projected
    /\ corr["overviewSpots"] # None
    /\ corr["lmFromOverviewSpots"] # corr["overviewSpots"][1]
    /\ corr["lmFromOverviewSpots"] # Transform(corr["lm2overview"], corr["overviewSpots"][1])
    /\ corr["searchFromOverviewSpots"] # corr["overviewSpots"][1]
    /\ \E spots \in SpotSets : corr[spots] = None

\* the point sets the correlation holds
PointSets ==
    {corr[name][1] : name \in {n \in SpotSets \cup {"lmMarkers", "overviewMarkers"} :
                                  n \in DOMAIN corr /\ corr[n] # None}}

\* C20: for every established correlation and every point set, projecting
\* the points with a forward transformation and then with the inverse
\* main() derived from it (lm2search then search2lm, lm2overview then
\* overview2lm, overview2search then search2overview) returns the original
\* points.
C20_RoundTrip ==
    InversesComputed =>
        \A pair \in InversePairs : \A points \in PointSets :
            Transform(corr[pair[2]], Transform(corr[pair[1]], points)) = points

\* the inverses were computed and the LM spots are moved by lm2search, which
\* is not lm2overview
C20_Witness ==
    /\ InversesComputed
    /\ corr["lmSpots"] # None
    /\ Transform(corr["lm2search"], corr["lmSpots"][1]) # corr["lmSpots"][1]
    /\ Transform(corr["lm2search"], corr["lmSpots"][1])
         # Transform(corr["lm2overview"], corr["lmSpots"][1])

----------------------------------------------------------------------------
(* Claims about the labels of the spots, stated for SpecSpots *)

\* main() has called write_results
ReachedReporting == cpc \in {"write", "done"} \/ results # None

\* the spot sets that can have labels, each with the attribute of its labels
LabelledSpots ==
    { << "overviewSpots", "overviewSpotLabels" >>,
      << "searchSpots", "searchSpotLabels" >> }

\* the labels are absent, or there are as many as spots
LabelsFit(spots, labels) ==
    \/ corr[labels] = None
    \/ /\ corr[spots] # None
       /\ Len(corr[labels][1]) = Len(corr[spots][1])

\* C21: for each spot set (overview spots, search spots), in every run that
\* reaches reporting the label list is either absent or has exactly as many
\* entries as the spot set; labels whose number differs from the number of
\* spots, or that are given for a spot set that is absent, do not reach
\* reporting.
C21_Original ==
    ReachedReporting =>
        \A pair \in LabelledSpots : LabelsFit(pair[1], pair[2])

----------------------------------------------------------------------------
(* Claims about the rows of the catalog and the files they name, stated    *)
(* for Spec                                                                *)

\* the number a sequence of decimal digits stands for
RECURSIVE DigitsValue(_)
DigitsValue(d) ==
    IF d = << >> THEN 0 ELSE 10 * DigitsValue(SubSeq(d, 1, Len(d) - 1)) + d[Len(d)]

\* the left corner a row records
RowCorner(row) == << row.left_corner_x, row.left_corner_y, row.left_corner_z >>

\* the k-th row and the k-th file written go together: the file is at the
\* path of the row, it was sliced at the corner of the row from the tomogram
\* of the row with edge box_size, and its name holds the identifier and the
\* id of the row
RowMatchesFile(row, file) ==
    /\ file.path = row.particle_path
    /\ file.corner = RowCorner(row)
    /\ file.size = box_size
    /\ file.tomo = row.tomo_path
    /\ row.particle_path.identifier = row.identifier
    /\ DigitsValue(row.particle_path.digits) = row.id

\* C22 (state part): every row of the catalog has its file: the recorded
\* left corner is the corner at which the particle written to the row's
\* particle_path was sliced out of the row's tomogram with edge box_size,
\* and the id of the row is the id in the file name; also after datasets
\* with no ids.
C22_RowsMatchFiles ==
    /\ Len(data) <= Len(written)
    /\ \A k \in 1..Len(data) : RowMatchesFile(data[k], written[k])

\* C22 (step part): every particle that write_particles writes is sliced
\* from a box [left, left + box_size) that lies inside the tomogram of the
\* dataset on every axis, and what was written is kept.
C22_SlicedInside ==
    /\ IsPrefix(written, written')
    /\ \A k \in (Len(written) + 1)..Len(written') : \A ax \in Axes :
          /\ written'[k].tomo = tomo_path
          /\ 0 <= written'[k].corner[ax]
          /\ written'[k].corner[ax] + written'[k].size <= tomo_shape[ax]

\* C22: for every row of the particle catalog, the recorded left corner is
\* the corner at which the particle written to that row's particle_path was
\* sliced out of that row's tomogram with edge box_size, the row's id is the
\* id used in that file name, and the box [left, left + box_size) lies
\* inside the tomogram on every axis; this holds after any sequence of
\* datasets, including datasets with no ids.
C22_CatalogMatchesFiles == [] C22_RowsMatchFiles /\ [][C22_SlicedInside]_vars

\* a dataset with no ids was processed and after it a dataset with two ids,
\* whose rows hold corners that differ along x and z
C22_Witness ==
    /\ pc = "done"
    /\ Len(processed) = 2
    /\ processed[1].ids = << >>
    /\ Len(data) = 2
    /\ \A k \in 1..2 : data[k].left_corner_x # data[k].left_corner_z

----------------------------------------------------------------------------
(* Claims about the errors write_results reads, stated for SpecCorr *)

\* C23: in every state reached after main() computed overview2lm, if
\* lm2overview has an exact rms error then overview2lm.rmsError is set, and
\* otherwise overview2lm.rmsErrorEst is set, so that the error in LM units
\* that write_results formats is never undefined.
C23_Original ==
    InversesComputed =>
        IF corr["lm2overview"].rmsError # None
        THEN corr["overview2lm"].rmsError # None
        ELSE corr["overview2lm"].rmsErrorEst # None

----------------------------------------------------------------------------
(* Claims about the failure for an identifier of no group, stated for Spec *)

\* the datasets of the identifiers before the k-th were read, each once and
\* in the order of the list
ReadOnceBefore(k) ==
    /\ Len(processed) = k - 1
    /\ \A i \in 1..(k - 1) : processed[i].identifier = identifiers[i]

\* the catalog and the files are those of the datasets read: one row and
\* one file for each of their ids, complete and in order
CompleteFor(sets) ==
    /\ [i \in 1..Len(data) |-> << data[i].identifier, data[i].id >>] = PairsInOrder(sets)
    /\ Len(written) = Len(data)
    /\ \A j \in 1..Len(data) : written[j].path = data[j].particle_path

\* no row and no file belongs to the identifier
NothingFor(ident) ==
    /\ \A j \in 1..Len(data) : data[j].identifier # ident
    /\ \A j \in 1..Len(written) : written[j].path.identifier # ident

\* C24 (state part): when the loop has met an identifier of no named group
\* at position k, the call has ended with the error at k, the k-1
\* identifiers before it were processed once each, their rows and files are
\* complete, and the bad identifier has no row and no file.
C24_Confined ==
    \A k \in 1..Len(identifiers) :
        (Searched(k) /\ ~InNamedGroup(identifiers[k])) =>
            /\ idx = k
            /\ pc = "error"
            /\ err = "NoGroup"
            /\ ReadOnceBefore(k)
            /\ CompleteFor(processed)
            /\ NothingFor(identifiers[k])

\* C24 (step part): the step that raises the error changes neither the
\* catalog nor the files nor the datasets read, and no step follows it.
C24_ErrorStep ==
    /\ err # "NoGroup"
    /\ err' = "NoGroup" =>
          UNCHANGED << data, written, warned, processed, particle_paths, idx >>

\* C24: when extract_particles meets an identifier that belongs to no named
\* group at position k of the identifier list, the particles and catalog
\* rows of the k-1 identifiers processed before it are those of a run that
\* ends before the bad identifier (nothing is rolled back or half-written),
\* no file is written and no row is added for the bad identifier, and no
\* identifier is retried.
C24_FailureConfined == [] C24_Confined /\ [][C24_ErrorStep]_vars

\* the error was raised for the second identifier after the dataset of the
\* first gave two rows and two files
C24_Witness ==
    /\ err = "NoGroup"
    /\ idx = 2
    /\ ~InNamedGroup(identifiers[2])
    /\ Len(data) = 2
    /\ Len(written) = 2

====
